---- MODULE Spec2Model ----
(***************************************************************************)
(* Price-tracking backend (backend/app.py, backend/db.py,                  *)
(* backend/wb_parser.py, backend/utils.py): the product table, the         *)
(* refresh selection, the batch / full-sweep refresh handler with its      *)
(* advisory lock, and the violation queries.                               *)
(*                                                                         *)
(* Conventions                                                             *)
(*   - a nullable value (SQL NULL, Python None) is a set with at most one  *)
(*     element: NULL is {} and a present value v is {v};                   *)
(*   - DECIMAL / float money values are integers in hundredths of the      *)
(*     currency unit (1200.00 is 120000); ui_price is an INT in whole      *)
(*     units, as in the table;                                             *)
(*   - NOW() is the variable now, in hours;                                *)
(*   - a title is the sequence of the digit runs the regular expression of *)
(*     extract_max_relevant_number finds in it, each with the fact whether *)
(*     a unit of measure follows it.                                       *)
(***************************************************************************)
EXTENDS Integers, Sequences, FiniteSets, TLC

\* ---------------------------------------------------------------- bounds
MaxNm == 3        \* product ids of the table-level specifications
MaxReqNm == 2     \* product ids of the request-level specifications
MaxFewNm == 1     \* product ids of the specifications with the most interleaving
MaxNow == 2       \* the clock runs 0..MaxNow
MaxLimit == 2     \* ?limit= values offered to refresh_batch go up to MaxLimit

\* product ids: the smallest values utils.py _parse_nm_id accepts
NM_ID_MIN == 100000
NM_ID_MAX == 999999999   \* 999999999999 in utils.py, cut to the integers TLC has
NmIds == (NM_ID_MIN + 1)..(NM_ID_MIN + MaxNm)
ReqNmIds == (NM_ID_MIN + 1)..(NM_ID_MIN + MaxReqNm)
FewNmIds == (NM_ID_MIN + 1)..(NM_ID_MIN + MaxFewNm)
Hours == 0..MaxNow

\* ------------------------------------------------------- nullable values
NULL == {}
Some(v) == {v}
IsNull(x) == x = {}
Val(x) == CHOOSE v \in x : TRUE

\* x or 0 of the Python code, for a nullable number
OrZero(x) == IF IsNull(x) THEN 0 ELSE Val(x)

Rub(n) == n * 100

Min2(a, b) == IF a <= b THEN a ELSE b

\* ------------------------------------------------------------- catalogs
DB_TABLE_DEFAULT == "products"
DB_TABLE_OZON == "products_ozon"
ALLOWED_TABLES == {DB_TABLE_DEFAULT, DB_TABLE_OZON}

\* ---------------------------------------------------------------- state
VARIABLES
    store,      \* table name -> set of rows
    now,        \* NOW()
    cfg,        \* the environment configuration read at import
    lockOwner,  \* lock name -> the pooled connection (session) holding it, 0 if none
    proc,       \* request id -> the state of that refresh_batch invocation
    last        \* the most recent store operation or query and what it returned

vars == <<store, now, cfg, lockOwner, proc, last>>

\* -------------------------------------------------------- configuration
\* STALE_HOURS (db.py), UI_* and WORK_* (app.py).  The wallet percent is
\* p = wallet / 100; threshold and step are in whole currency units.
DefaultCfg ==
    [stale |-> 0, wallet |-> 0, thr |-> 0, step |-> 1,
     work_start |-> 9, work_end |-> 20, tz |-> 0, batch_limit |-> 20]

\* ----------------------------------------------------- display price (UI)
\* the display price computed for every number, the sentinel included
CalcUiNoGuard(c, base) ==
    IF IsNull(base) THEN NULL
    ELSE LET b == Val(base)
             step == IF c.step > 0 THEN c.step ELSE 1
             raw == IF c.wallet > 0 THEN b * (100 - c.wallet) ELSE b * 100
             ui == IF c.thr > 0 /\ b >= Rub(c.thr)
                     THEN (raw \div (10000 * step)) * step
                     ELSE raw \div 10000
         IN  Some(ui)

\* a display price rounded up to the next multiple
CalcUiRoundsUp(c, base) ==
    IF IsNull(base) THEN NULL
    ELSE IF Val(base) <= 0 THEN NULL
    ELSE LET b == Val(base)
             step == IF c.step > 0 THEN c.step ELSE 1
             raw == IF c.wallet > 0 THEN b * (100 - c.wallet) ELSE b * 100
             ui == IF c.thr > 0 /\ b >= Rub(c.thr)
                     THEN ((raw + 10000 * step - 1) \div (10000 * step)) * step
                     ELSE raw \div 10000
         IN  Some(ui)

\* a rounding that starts one unit above the threshold
CalcUiLateThreshold(c, base) ==
    IF IsNull(base) THEN NULL
    ELSE IF Val(base) <= 0 THEN NULL
    ELSE LET b == Val(base)
             step == IF c.step > 0 THEN c.step ELSE 1
             raw == IF c.wallet > 0 THEN b * (100 - c.wallet) ELSE b * 100
             ui == IF c.thr > 0 /\ b >= Rub(c.thr) + 100
                     THEN (raw \div (10000 * step)) * step
                     ELSE raw \div 10000
         IN  Some(ui)

\* app.py calc_ui_price_from_product; base is a nullable money value.
\* raw is kept as a numerator over 10000 (hundredths times percent).
calc_ui_price_from_product(c, base) ==
    IF IsNull(base) THEN NULL
    ELSE IF Val(base) <= 0 THEN NULL
    ELSE LET b == Val(base)
             step == IF c.step > 0 THEN c.step ELSE 1
             raw == IF c.wallet > 0 THEN b * (100 - c.wallet) ELSE b * 100
             ui == IF c.thr > 0 /\ b >= Rub(c.thr)
                     THEN (raw \div (10000 * step)) * step
                     ELSE raw \div 10000
         IN  Some(ui)

\* lines 77-78 and 91-92: float(base_price) raising on a value that is not a
\* number, which the except clause turns into None; v = [bad, base]
CalcUiOfValue(c, v) ==
    IF v.bad THEN NULL ELSE calc_ui_price_from_product(c, v.base)

\* --------------------------------------------------- title-derived floor
\* utils.py extract_max_relevant_number: digit runs of more than six digits
\* never match the pattern, runs >= 10000 are codes, runs followed by a unit
\* are volumes or weights; the maximum of the rest.
Candidates(title) ==
    {title[i].num : i \in {j \in DOMAIN title :
                              /\ title[j].digits <= 6
                              /\ ~(title[j].num >= 10000)
                              /\ ~title[j].unit}}

extract_max_relevant_number(title) ==
    IF title = <<>> THEN NULL
    ELSE IF Candidates(title) # {}
         THEN Some(CHOOSE n \in Candidates(title) : \A m \in Candidates(title) : m <= n)
         ELSE NULL

\* utils.py calc_rrc_from_title
calc_rrc_from_title(title) ==
    LET n == extract_max_relevant_number(title) IN
    IF IsNull(n) THEN NULL
    ELSE IF Val(n) <= 0 THEN NULL
    ELSE IF Val(n) > 800 THEN NULL
    ELSE IF Val(n) < 700 THEN Some(Rub(1300))
    ELSE Some(Rub(1500))

\* ------------------------------------------------------------ price source
\* wb_parser.py fetch_wb_price, after the HTTP call returned the card: the
\* first size whose basic and product prices are both numbers > 0 gives the
\* prices (kopecks / 100); no such size gives (0, -1).
ValidSize(s) ==
    /\ ~IsNull(s.basic) /\ ~IsNull(s.product)
    /\ Val(s.basic) > 0 /\ Val(s.product) > 0

FirstValid(sizes) ==
    IF \E i \in DOMAIN sizes : ValidSize(sizes[i])
    THEN Some(CHOOSE i \in DOMAIN sizes :
                /\ ValidSize(sizes[i])
                /\ \A j \in DOMAIN sizes : ValidSize(sizes[j]) => i <= j)
    ELSE NULL

fetch_wb_price(nm_id, card) ==
    LET k == FirstValid(card.sizes) IN
    [nm_id |-> nm_id,
     brand |-> card.brand,
     title |-> card.name,
     price_before_discount |->
        IF IsNull(k) THEN Some(0) ELSE Some(Val(card.sizes[Val(k)].basic)),
     price_after_seller_discount |->
        IF IsNull(k) THEN Some(Rub(-1)) ELSE Some(Val(card.sizes[Val(k)].product)),
     seller_id |-> card.supplierId,
     seller_name |-> card.supplier,
     \* the keys in_stock / available are never part of the returned dict
     in_stock |-> NULL,
     available |-> NULL]

\* app.py _infer_unavailable; a flag is a nullable BOOLEAN (NULL: key absent)
_infer_unavailable(data) ==
    \/ (~IsNull(data.in_stock) /\ Val(data.in_stock) = FALSE)
    \/ (~IsNull(data.available) /\ Val(data.available) = FALSE)
    \/ (OrZero(data.price_after_seller_discount) <= 0
        /\ OrZero(data.price_before_discount) <= 0)

\* seller_name or None: the empty string (rank 0) becomes None
NameOrNone(x) == IF IsNull(x) \/ Val(x) = 0 THEN NULL ELSE x

\* ----------------------------------------------------------- the table
RowsOf(rows, nm) == {r \in rows : r.nm_id = nm}

\* REPLACE INTO: the row of the key is deleted and inserted anew
UpsertReplace(rows, t, a) ==
    {r \in rows : r.nm_id # a.nm_id} \cup
    {[nm_id |-> a.nm_id, brand |-> a.brand, title |-> a.title,
      seller_id |-> a.seller_id, seller_name |-> a.seller_name,
      price_before_discount |-> Some(a.price_before),
      price_after_seller_discount |-> Some(a.price_after),
      ui_price |-> a.ui_price, rrc |-> NULL,
      updated_at |-> Some(t), sales_24h |-> a.sales_24h]}

\* a plain INSERT on a table without the unique key
UpsertAlwaysInsert(rows, t, a) ==
    rows \cup
    {[nm_id |-> a.nm_id, brand |-> a.brand, title |-> a.title,
      seller_id |-> a.seller_id, seller_name |-> a.seller_name,
      price_before_discount |-> Some(a.price_before),
      price_after_seller_discount |-> Some(a.price_after),
      ui_price |-> a.ui_price, rrc |-> NULL,
      updated_at |-> Some(t), sales_24h |-> a.sales_24h]}

\* an UPDATE ... WHERE nm_id = %s: no row, nothing written
UpsertUpdateOnly(rows, t, a) ==
    {IF r.nm_id = a.nm_id
       THEN [r EXCEPT !.brand = a.brand,
                      !.title = a.title,
                      !.seller_id = a.seller_id,
                      !.seller_name = a.seller_name,
                      !.price_before_discount = Some(a.price_before),
                      !.price_after_seller_discount = Some(a.price_after),
                      !.ui_price = a.ui_price,
                      !.updated_at = Some(t),
                      !.sales_24h = IF IsNull(a.sales_24h) THEN r.sales_24h
                                    ELSE a.sales_24h]
       ELSE r : r \in rows}

\* db.py upsert_product: INSERT ... ON DUPLICATE KEY UPDATE, a an argument
\* record; rrc is not in the column list.
upsert_product(rows, t, a) ==
    IF RowsOf(rows, a.nm_id) # {}
    THEN {IF r.nm_id = a.nm_id
            THEN [r EXCEPT !.brand = a.brand,
                           !.title = a.title,
                           !.seller_id = a.seller_id,
                           !.seller_name = a.seller_name,
                           !.price_before_discount = Some(a.price_before),
                           !.price_after_seller_discount = Some(a.price_after),
                           !.ui_price = a.ui_price,
                           !.updated_at = Some(t),
                           !.sales_24h = IF IsNull(a.sales_24h) THEN r.sales_24h
                                         ELSE a.sales_24h]
            ELSE r : r \in rows}
    ELSE rows \cup
         {[nm_id |-> a.nm_id, brand |-> a.brand, title |-> a.title,
           seller_id |-> a.seller_id, seller_name |-> a.seller_name,
           price_before_discount |-> Some(a.price_before),
           price_after_seller_discount |-> Some(a.price_after),
           ui_price |-> a.ui_price, rrc |-> NULL,
           updated_at |-> Some(t), sales_24h |-> a.sales_24h]}

\* db.py set_rrc: UPDATE ... WHERE nm_id = %s
set_rrc(rows, t, nm_id, rrc) ==
    {IF r.nm_id = nm_id THEN [r EXCEPT !.rrc = rrc, !.updated_at = Some(t)] ELSE r
       : r \in rows}

\* db.py delete_product as db_delete, delete_all_products
db_delete(rows, nm_id) == {r \in rows : r.nm_id # nm_id}
delete_all_products(rows) == {}

\* ------------------------------------------------------ refresh selection
\* a WHERE clause written with <= 0 in place of = 0
WhereNonPositive(c, t, r) ==
    LET empty == \/ IsNull(r.price_after_seller_discount)
                 \/ Val(r.price_after_seller_discount) <= 0
    IN  IF c.stale > 0
        THEN \/ empty
             \/ IsNull(r.updated_at)
             \/ Val(r.updated_at) < t - c.stale
        ELSE empty

\* a WHERE clause that never looks at STALE_HOURS
WhereNoStale(c, t, r) ==
    \/ IsNull(r.price_after_seller_discount)
    \/ Val(r.price_after_seller_discount) = 0

\* db.py _where_need_refresh
_where_need_refresh(c, t, r) ==
    LET empty == \/ IsNull(r.price_after_seller_discount)
                 \/ Val(r.price_after_seller_discount) = 0
    IN  IF c.stale > 0
        THEN \/ empty
             \/ IsNull(r.updated_at)
             \/ Val(r.updated_at) < t - c.stale
        ELSE empty

\* an ORDER BY nm_id ASC alone
RefreshOrderById(a, b) == a.nm_id < b.nm_id

\* ORDER BY (updated_at IS NULL) DESC, updated_at ASC, nm_id ASC
RefreshOrder(a, b) ==
    IF IsNull(a.updated_at) # IsNull(b.updated_at) THEN IsNull(a.updated_at)
    ELSE IF ~IsNull(a.updated_at) /\ Val(a.updated_at) # Val(b.updated_at)
         THEN Val(a.updated_at) < Val(b.updated_at)
    ELSE a.nm_id < b.nm_id

RECURSIVE SortRows(_)
SortRows(S) ==
    IF S = {} THEN <<>>
    ELSE LET m == CHOOSE r \in S : \A q \in S : ~RefreshOrder(q, r)
         IN  <<m>> \o SortRows(S \ {m})

Take(s, n) == SubSeq(s, 1, Min2(n, Len(s)))

NmIdsOf(s) == [i \in DOMAIN s |-> s[i].nm_id]

\* db.py list_nm_ids_for_refresh
list_nm_ids_for_refresh(rows, c, t, limit) ==
    Take(NmIdsOf(SortRows({r \in rows : _where_need_refresh(c, t, r)})),
         limit)

\* db.py count_needing_refresh
count_needing_refresh(rows, c, t) ==
    Cardinality({r \in rows : _where_need_refresh(c, t, r)})

\* ORDER BY nm_id ASC
RECURSIVE SortByNmId(_)
SortByNmId(S) ==
    IF S = {} THEN <<>>
    ELSE LET m == CHOOSE r \in S : \A q \in S : r.nm_id <= q.nm_id
         IN  <<m>> \o SortByNmId(S \ {m})

\* db.py list_nm_ids_any: LIMIT limit OFFSET offset of the whole table
list_nm_ids_any(rows, limit, offset) ==
    LET all == NmIdsOf(SortByNmId(rows))
    IN  SubSeq(all, offset + 1, Min2(offset + limit, Len(all)))

\* db.py count_all_rows
count_all_rows(rows) == Cardinality(rows)

\* ---------------------------------------------------- violation queries
\* the WHERE clause of db.py list_sellers_with_violations
SellerViolationWhere(r) ==
    /\ ~IsNull(r.ui_price) /\ Val(r.ui_price) > 0
    /\ ~IsNull(r.rrc) /\ Val(r.rrc) > 0
    /\ Rub(Val(r.ui_price)) < Val(r.rrc)

\* MAX(seller_name) of a group: NULL when every name is NULL
MaxName(G) ==
    LET names == {Val(r.seller_name) : r \in {q \in G : ~IsNull(q.seller_name)}}
    IN  IF names = {} THEN NULL
        ELSE Some(CHOOSE n \in names : \A m \in names : m <= n)

\* db.py list_sellers_with_violations: the groups of the query; the dict
\* comprehension int(r[0]) raises on the group whose seller_id is NULL
list_sellers_with_violations(rows) ==
    LET V == {r \in rows : SellerViolationWhere(r)}
    IN  IF \E r \in V : IsNull(r.seller_id)
        THEN [raised |-> TRUE, rows |-> {}]
        ELSE [raised |-> FALSE,
              rows |-> {[seller_id |-> Val(sid),
                         seller_name |-> MaxName({r \in V : r.seller_id = sid}),
                         violations |-> Cardinality({r \in V : r.seller_id = sid})]
                        : sid \in {r.seller_id : r \in V}}]

\* a drill-down that forgets WHERE seller_id = %s
ViolationsOfAnySeller(rows, seller_id) ==
    NmIdsOf(SortByNmId({r \in rows : SellerViolationWhere(r)}))

\* db.py list_violations_for_seller: the nm_id column of the dicts returned
list_violations_for_seller(rows, seller_id) ==
    NmIdsOf(SortByNmId({r \in rows : /\ r.seller_id = Some(seller_id)
                                      /\ SellerViolationWhere(r)}))

\* the WHERE clause of db.py count_violations: the display price or the raw
\* discounted price is below the floor
ViolationWhere(r) ==
    /\ ~IsNull(r.rrc) /\ Val(r.rrc) > 0
    /\ \/ /\ ~IsNull(r.ui_price) /\ Val(r.ui_price) > 0
          /\ Rub(Val(r.ui_price)) < Val(r.rrc)
       \/ /\ ~IsNull(r.price_after_seller_discount)
          /\ Val(r.price_after_seller_discount) > 0
          /\ Val(r.price_after_seller_discount) < Val(r.rrc)

\* db.py count_violations
count_violations(rows) == Cardinality({r \in rows : ViolationWhere(r)})

\* ------------------------------------------------------- active hours
\* app.py now_local_hour / is_work_time; the clock counts hours
now_local_hour(c, t) == (t + c.tz) % 24

\* a window test without the branch for start > end
IsWorkTimeNoWrap(c, t) ==
    LET h == now_local_hour(c, t) IN
    c.work_start <= h /\ h < c.work_end

is_work_time(c, t) ==
    LET h == now_local_hour(c, t) IN
    IF c.work_start <= c.work_end
    THEN c.work_start <= h /\ h < c.work_end
    ELSE h >= c.work_start \/ h < c.work_end

\* --------------------------------------------------- pooled connections
\* db.py _ensure_pool: MySQLConnectionPool(pool_size=5); GET_LOCK locks
\* belong to the session of the connection that took them.
POOL_SIZE == 5
Conns == 1..POOL_SIZE

\* one lock name for every catalog
LockNameShared(table) == <<DB_TABLE_DEFAULT, "_refresh_full_lock">>

\* app.py line 346: f"{table}_refresh_full_lock"
LOCK_NAME(table) == <<table, "_refresh_full_lock">>

\* the connections some request holds open right now
OpenConns == {proc[q].conn : q \in DOMAIN proc} \ {0}

\* SELECT GET_LOCK(name, 0) on connection c: granted when the lock is free
\* or already held by this very session
GetLockGranted(lo, name, c) == lo[name] = 0 \/ lo[name] = c
GetLock(lo, name, c) ==
    IF GetLockGranted(lo, name, c) THEN [lo EXCEPT ![name] = c] ELSE lo

\* SELECT RELEASE_LOCK(name) on connection c: only the holding session
\* releases
ReleaseLock(lo, name, c) ==
    IF lo[name] = c THEN [lo EXCEPT ![name] = 0] ELSE lo

\* a pool that takes a connection back without resetting its session: the
\* session, and the locks it holds, live on in the idle connection
CloseConnKeepSession(lo, c) == lo

\* conn.close() of a pooled connection: the pool resets the session
\* (pool_reset_session defaults to True) before taking the connection
\* back, which releases every lock the session holds
CloseConn(lo, c) == [n \in DOMAIN lo |-> IF lo[n] = c THEN 0 ELSE lo[n]]

\* ----------------------------------------- refresh_batch, one invocation
MaxLoops == 2     \* stands for MAX_LOOPS = 10000 of the full-sweep loop

IdleProc ==
    [pc |-> "idle", table |-> DB_TABLE_DEFAULT, limit |-> 0,
     silent |-> FALSE, full |-> FALSE,
     conn |-> 0, got |-> FALSE, safety_loops |-> 0,
     nm_ids |-> <<>>, idx |-> 0, data |-> NULL,
     updated |-> <<>>, errors |-> <<>>, wrote |-> {}, remaining |-> NULL,
     total_updated |-> 0, total_errors |-> 0, last_errors |-> <<>>,
     alerted |-> <<>>, alert_err |-> FALSE, resp |-> NULL]

NoLast == [op |-> "none"]

\* the JSON bodies of refresh_batch: the failure of line 453, the answer
\* of line 409; updated and errors are the lists of the body (the sweep
\* reports errors_last_batch), updated_n and errors_n its counts or totals
RespFail ==
    [ok |-> FALSE, locked |-> NULL, mode |-> "", remaining |-> NULL, done |-> NULL,
     requested |-> NULL, selected |-> NULL,
     updated |-> <<>>, errors |-> <<>>, updated_n |-> NULL, errors_n |-> NULL]
RespLocked ==
    [ok |-> TRUE, locked |-> Some(TRUE), mode |-> "", remaining |-> NULL, done |-> NULL,
     requested |-> NULL, selected |-> NULL,
     updated |-> <<>>, errors |-> <<>>, updated_n |-> NULL, errors_n |-> NULL]

\* the handler returned: its locals are gone, the response and what it sent
\* stay until the worker takes its next request
Returned(q, resp) ==
    [IdleProc EXCEPT !.pc = "done", !.table = q.table, !.full = q.full,
                     !.got = q.got, !.alerted = q.alerted,
                     !.alert_err = q.alert_err, !.resp = Some(resp)]

\* an exception that leaves do_one_batch or the code around it: in full
\* mode the finally clause runs first, then the outer except answers 500
Raised(q) ==
    IF q.full THEN [q EXCEPT !.pc = "release", !.resp = Some(RespFail)]
    ELSE Returned(q, RespFail)

\* app.py refresh_batch, lines 341-346 and the branch at 384 / 408
Start(p, t, lim, silent, full) ==
    /\ proc[p].pc \in {"idle", "done"}
    /\ proc' = [proc EXCEPT ![p] =
                  [IdleProc EXCEPT !.pc = IF full THEN "acquire" ELSE "select",
                                   !.table = t, !.limit = lim,
                                   !.silent = silent, !.full = full]]
    /\ UNCHANGED <<store, now, cfg, lockOwner, last>>

\* db.py acquire_advisory_lock up to fetchone(): the connection is still open
AcquireLock(p) ==
    /\ proc[p].pc = "acquire"
    /\ \E c \in Conns \ OpenConns :
         /\ proc' = [proc EXCEPT ![p].pc = "acquire_close", ![p].conn = c,
                                 ![p].got = GetLockGranted(lockOwner, LOCK_NAME(proc[p].table), c)]
         /\ lockOwner' = GetLock(lockOwner, LOCK_NAME(proc[p].table), c)
    /\ UNCHANGED <<store, now, cfg, last>>

\* acquire_advisory_lock raising RuntimeError: before the try of line 411
AcquireRaise(p) ==
    /\ proc[p].pc = "acquire"
    /\ proc' = [proc EXCEPT ![p] = Returned(@, RespFail)]
    /\ UNCHANGED <<store, now, cfg, lockOwner, last>>

\* a handler that enters the sweep loop whatever GET_LOCK answered
AcquireCloseIgnoringRefusal(p) ==
    /\ proc[p].pc = "acquire_close"
    /\ lockOwner' = CloseConn(lockOwner, proc[p].conn)
    /\ proc' = [proc EXCEPT ![p] =
                  [@ EXCEPT !.pc = "select", !.conn = 0, !.safety_loops = 1]]
    /\ UNCHANGED <<store, now, cfg, last>>

\* the finally of acquire_advisory_lock, then lines 408-416
AcquireClose(p) ==
    /\ proc[p].pc = "acquire_close"
    /\ lockOwner' = CloseConn(lockOwner, proc[p].conn)
    /\ proc' = [proc EXCEPT ![p] =
                  IF proc[p].got
                  THEN [@ EXCEPT !.pc = "select", !.conn = 0, !.safety_loops = 1]
                  ELSE Returned(@, RespLocked)]
    /\ UNCHANGED <<store, now, cfg, last>>

\* do_one_batch, lines 349-350
Select(p) ==
    /\ proc[p].pc = "select"
    /\ proc[p].limit >= 0
    /\ LET ids == list_nm_ids_for_refresh(store[proc[p].table], cfg, now, proc[p].limit)
       IN  proc' = [proc EXCEPT ![p].nm_ids = ids, ![p].idx = 1,
                                ![p].updated = <<>>, ![p].errors = <<>>,
                                ![p].wrote = {}, ![p].data = NULL,
                                ![p].pc = IF ids = <<>> THEN "count" ELSE "fetch"]
    /\ UNCHANGED <<store, now, cfg, lockOwner, last>>

SelectRaise(p) ==
    /\ proc[p].pc = "select"
    /\ proc' = [proc EXCEPT ![p] = Raised(@)]
    /\ UNCHANGED <<store, now, cfg, lockOwner, last>>

\* the position after one id of the batch has been dealt with
NextItem(q) ==
    [q EXCEPT !.idx = q.idx + 1, !.data = NULL,
              !.pc = IF q.idx + 1 > Len(q.nm_ids) THEN "count" ELSE "fetch"]

CurId(q) == q.nm_ids[q.idx]

\* line 354, the price source answered
Fetch(p, card) ==
    /\ proc[p].pc = "fetch"
    /\ proc' = [proc EXCEPT ![p].data = Some(fetch_wb_price(CurId(proc[p]), card)),
                            ![p].pc = "upsert"]
    /\ UNCHANGED <<store, now, cfg, lockOwner, last>>

\* a fetch error that leaves do_one_batch instead of being caught per item
FetchRaiseAbort(p) ==
    /\ proc[p].pc = "fetch"
    /\ proc' = [proc EXCEPT ![p] = Raised(@)]
    /\ UNCHANGED <<store, now, cfg, lockOwner, last>>

\* line 354 raising (HTTP error, timeout, no such card), lines 378-379
FetchRaise(p) ==
    /\ proc[p].pc = "fetch"
    /\ proc' = [proc EXCEPT ![p] =
                  NextItem([@ EXCEPT !.errors =
                      Append(@, [nm_id |-> CurId(proc[p]), error |-> "fetch"])])]
    /\ UNCHANGED <<store, now, cfg, lockOwner, last>>

\* do_one_batch storing 0, not -1, for an item that is not on sale
BatchUpsertArgsZero(c, data) ==
    LET pb0 == OrZero(data.price_before_discount)
        pa0 == OrZero(data.price_after_seller_discount)
        unavail == pb0 <= 0 /\ pa0 <= 0
        pb == IF unavail THEN 0 ELSE pb0
        pa == IF unavail THEN 0 ELSE pa0
    IN  [nm_id |-> data.nm_id, brand |-> data.brand, title |-> data.title,
         price_before |-> pb, price_after |-> pa,
         seller_id |-> data.seller_id, seller_name |-> NameOrNone(data.seller_name),
         ui_price |-> calc_ui_price_from_product(c, Some(pa)),
         sales_24h |-> NULL]

\* lines 355-373: the arguments do_one_batch passes to upsert_product
BatchUpsertArgs(c, data) ==
    LET pb0 == OrZero(data.price_before_discount)
        pa0 == OrZero(data.price_after_seller_discount)
        unavail == pb0 <= 0 /\ pa0 <= 0
        pb == IF unavail THEN 0 ELSE pb0
        pa == IF unavail THEN Rub(-1) ELSE pa0
    IN  [nm_id |-> data.nm_id, brand |-> data.brand, title |-> data.title,
         price_before |-> pb, price_after |-> pa,
         seller_id |-> data.seller_id, seller_name |-> NameOrNone(data.seller_name),
         ui_price |-> calc_ui_price_from_product(c, Some(pa)),
         sales_24h |-> NULL]

\* lines 360-377
Upsert(p) ==
    /\ proc[p].pc = "upsert"
    /\ LET q == proc[p]
           d == Val(q.data)
       IN  /\ store' = [store EXCEPT ![q.table] =
                          upsert_product(@, now, BatchUpsertArgs(cfg, d))]
           /\ proc' = [proc EXCEPT ![p] =
                         IF IsNull(calc_rrc_from_title(d.title))
                         THEN NextItem([q EXCEPT !.updated = Append(@, CurId(q)),
                                                 !.wrote = @ \cup {d.nm_id}])
                         ELSE [q EXCEPT !.pc = "set_rrc", !.wrote = @ \cup {d.nm_id}]]
    /\ UNCHANGED <<now, cfg, lockOwner, last>>

\* upsert_product raising RuntimeError, lines 378-379
UpsertRaise(p) ==
    /\ proc[p].pc = "upsert"
    /\ proc' = [proc EXCEPT ![p] =
                  NextItem([@ EXCEPT !.errors =
                      Append(@, [nm_id |-> CurId(proc[p]), error |-> "store"])])]
    /\ UNCHANGED <<store, now, cfg, lockOwner, last>>

\* lines 374-377
SetRrc(p) ==
    /\ proc[p].pc = "set_rrc"
    /\ LET q == proc[p] IN
       /\ store' = [store EXCEPT ![q.table] =
                      set_rrc(@, now, CurId(q), calc_rrc_from_title(Val(q.data).title))]
       /\ proc' = [proc EXCEPT ![p] = NextItem([q EXCEPT !.updated = Append(@, CurId(q))])]
    /\ UNCHANGED <<now, cfg, lockOwner, last>>

SetRrcRaise(p) ==
    /\ proc[p].pc = "set_rrc"
    /\ proc' = [proc EXCEPT ![p] =
                  NextItem([@ EXCEPT !.errors =
                      Append(@, [nm_id |-> CurId(proc[p]), error |-> "store"])])]
    /\ UNCHANGED <<store, now, cfg, lockOwner, last>>

\* a body whose done says that no item failed
RespBatchDoneIfNoErrors(q, remaining) ==
    [ok |-> TRUE, locked |-> Some(FALSE), mode |-> "",
     remaining |-> Some(remaining), done |-> Some(q.errors = <<>>),
     requested |-> Some(q.limit),
     selected |-> Some(Len(q.updated) + Len(q.errors)),
     updated |-> q.updated, errors |-> q.errors,
     updated_n |-> Some(Len(q.updated)), errors_n |-> Some(Len(q.errors))]

\* the body returned by the incremental branch, lines 394-405
RespBatch(q, remaining) ==
    [ok |-> TRUE, locked |-> Some(FALSE), mode |-> "",
     remaining |-> Some(remaining), done |-> Some(remaining = 0),
     requested |-> Some(q.limit),
     selected |-> Some(Len(q.updated) + Len(q.errors)),
     updated |-> q.updated, errors |-> q.errors,
     updated_n |-> Some(Len(q.updated)), errors_n |-> Some(Len(q.errors))]

\* a sweep that alerts although silent=1 was asked for
AfterCountSweepNotSilent(c, t, q, remaining) ==
    IF ~q.full
    THEN IF ~q.silent /\ remaining = 0 /\ is_work_time(c, t)
         THEN [q EXCEPT !.remaining = Some(remaining), !.pc = "alert"]
         ELSE Returned(q, RespBatch(q, remaining))
    ELSE LET q1 == [q EXCEPT !.remaining = Some(remaining),
                             !.total_updated = @ + Len(q.updated),
                             !.total_errors = @ + Len(q.errors),
                             !.last_errors = q.errors]
             stop == remaining = 0 \/ q.safety_loops + 1 > MaxLoops
         IN  IF ~stop
             THEN [q1 EXCEPT !.safety_loops = @ + 1, !.pc = "select"]
             ELSE [q1 EXCEPT !.safety_loops = IF remaining = 0 THEN @ ELSE @ + 1,
                             !.pc = IF is_work_time(c, t)
                                      THEN "alert" ELSE "final_remaining"]

\* a loop that runs one iteration more than the cap
AfterCountOneMoreLoop(c, t, q, remaining) ==
    IF ~q.full
    THEN IF ~q.silent /\ remaining = 0 /\ is_work_time(c, t)
         THEN [q EXCEPT !.remaining = Some(remaining), !.pc = "alert"]
         ELSE Returned(q, RespBatch(q, remaining))
    ELSE LET q1 == [q EXCEPT !.remaining = Some(remaining),
                             !.total_updated = @ + Len(q.updated),
                             !.total_errors = @ + Len(q.errors),
                             !.last_errors = q.errors]
             stop == remaining = 0 \/ q.safety_loops > MaxLoops
         IN  IF ~stop
             THEN [q1 EXCEPT !.safety_loops = @ + 1, !.pc = "select"]
             ELSE [q1 EXCEPT !.safety_loops = IF remaining = 0 THEN @ ELSE @ + 1,
                             !.pc = IF ~q.silent /\ is_work_time(c, t)
                                      THEN "alert" ELSE "final_remaining"]

\* an incremental branch that alerts whatever the hour
AfterCountNoWindow(c, t, q, remaining) ==
    IF ~q.full
    THEN IF ~q.silent /\ remaining = 0
         THEN [q EXCEPT !.remaining = Some(remaining), !.pc = "alert"]
         ELSE Returned(q, RespBatch(q, remaining))
    ELSE LET q1 == [q EXCEPT !.remaining = Some(remaining),
                             !.total_updated = @ + Len(q.updated),
                             !.total_errors = @ + Len(q.errors),
                             !.last_errors = q.errors]
             stop == remaining = 0 \/ q.safety_loops + 1 > MaxLoops
         IN  IF ~stop
             THEN [q1 EXCEPT !.safety_loops = @ + 1, !.pc = "select"]
             ELSE [q1 EXCEPT !.safety_loops = IF remaining = 0 THEN @ ELSE @ + 1,
                             !.pc = IF ~q.silent /\ is_work_time(c, t)
                                      THEN "alert" ELSE "final_remaining"]

\* line 381, then lines 385-386 (incremental) or 423-431 (full sweep)
AfterCount(c, t, q, remaining) ==
    IF ~q.full
    THEN IF ~q.silent /\ remaining = 0 /\ is_work_time(c, t)
         THEN [q EXCEPT !.remaining = Some(remaining), !.pc = "alert"]
         ELSE Returned(q, RespBatch(q, remaining))
    ELSE LET q1 == [q EXCEPT !.remaining = Some(remaining),
                             !.total_updated = @ + Len(q.updated),
                             !.total_errors = @ + Len(q.errors),
                             !.last_errors = q.errors]
             stop == remaining = 0 \/ q.safety_loops + 1 > MaxLoops
         IN  IF ~stop
             THEN [q1 EXCEPT !.safety_loops = @ + 1, !.pc = "select"]
             ELSE [q1 EXCEPT !.safety_loops = IF remaining = 0 THEN @ ELSE @ + 1,
                             !.pc = IF ~q.silent /\ is_work_time(c, t)
                                      THEN "alert" ELSE "final_remaining"]

Count(p) ==
    /\ proc[p].pc = "count"
    /\ proc' = [proc EXCEPT ![p] =
                  AfterCount(cfg, now, @, count_needing_refresh(store[@.table], cfg, now))]
    /\ UNCHANGED <<store, now, cfg, lockOwner, last>>

CountRaise(p) ==
    /\ proc[p].pc = "count"
    /\ proc' = [proc EXCEPT ![p] = Raised(@)]
    /\ UNCHANGED <<store, now, cfg, lockOwner, last>>

\* after the alert block: the incremental branch answers, the sweep goes on
\* to build its body
AfterAlert(q) ==
    IF q.full THEN [q EXCEPT !.pc = "final_remaining"]
    ELSE Returned(q, RespBatch(q, Val(q.remaining)))

\* the groups in any order
AlertOrdersAny(rs) ==
    {s \in [1..Cardinality(rs) -> rs] :
        \A i, j \in DOMAIN s : i # j => s[i] # s[j]}

\* the lists the query may return for the groups rs: ORDER BY cnt DESC,
\* groups of equal count in any order
AlertOrders(rs) ==
    {s \in [1..Cardinality(rs) -> rs] :
        /\ \A i, j \in DOMAIN s : i # j => s[i] # s[j]
        /\ \A i, j \in DOMAIN s : i < j => s[i].violations >= s[j].violations}

SellerIdsOf(s) == [i \in DOMAIN s |-> s[i].seller_id]

\* lines 387-390 / 432-435 with every send_violation_alert returning:
\* alerted lists the sellers send_violation_alert was called for
Alert(p) ==
    /\ proc[p].pc = "alert"
    /\ LET v == list_sellers_with_violations(store[proc[p].table])
       IN  /\ ~v.raised
           /\ \E s \in AlertOrders(v.rows) :
                 proc' = [proc EXCEPT ![p] =
                            AfterAlert([@ EXCEPT !.alerted = SellerIdsOf(s)])]
    /\ UNCHANGED <<store, now, cfg, lockOwner, last>>

\* a dispatch failure that leaves the handler as any other exception does
AlertRaiseSurfaces(p) ==
    /\ proc[p].pc = "alert"
    /\ proc' = [proc EXCEPT ![p] = Raised([@ EXCEPT !.alert_err = TRUE])]
    /\ UNCHANGED <<store, now, cfg, lockOwner, last>>

\* lines 391-392 / 436-437: the query raised (k = 0), or the k-th call of
\* send_violation_alert did; the except clause logs and goes on
AlertRaise(p) ==
    /\ proc[p].pc = "alert"
    /\ LET v == list_sellers_with_violations(store[proc[p].table])
       IN  \E s \in AlertOrders(v.rows), k \in 0..Cardinality(v.rows) :
              proc' = [proc EXCEPT ![p] =
                         AfterAlert([@ EXCEPT !.alerted = Take(SellerIdsOf(s), k),
                                              !.alert_err = TRUE])]
    /\ UNCHANGED <<store, now, cfg, lockOwner, last>>

\* line 445: "remaining"
FinalRemaining(p) ==
    /\ proc[p].pc = "final_remaining"
    /\ proc' = [proc EXCEPT ![p].pc = "final_done",
                            ![p].remaining =
                               Some(count_needing_refresh(store[proc[p].table], cfg, now))]
    /\ UNCHANGED <<store, now, cfg, lockOwner, last>>

\* line 446: "done", and the body of lines 439-448
FinalDone(p) ==
    /\ proc[p].pc = "final_done"
    /\ LET q == proc[p]
           n == count_needing_refresh(store[q.table], cfg, now)
       IN  proc' = [proc EXCEPT ![p].pc = "release",
                       ![p].resp = Some([ok |-> TRUE, locked |-> Some(FALSE), mode |-> "full",
                                         remaining |-> q.remaining, done |-> Some(n = 0),
                                         requested |-> NULL, selected |-> NULL,
                                         updated |-> <<>>, errors |-> q.last_errors,
                                         updated_n |-> Some(q.total_updated),
                                         errors_n |-> Some(q.total_errors)])]
    /\ UNCHANGED <<store, now, cfg, lockOwner, last>>

FinalRaise(p) ==
    /\ proc[p].pc \in {"final_remaining", "final_done"}
    /\ proc' = [proc EXCEPT ![p] = Raised(@)]
    /\ UNCHANGED <<store, now, cfg, lockOwner, last>>

\* lines 449-450 with db.py release_advisory_lock: RELEASE_LOCK on a
\* connection taken from the pool, which is then closed
Release(p) ==
    /\ proc[p].pc = "release"
    /\ \E c \in Conns \ OpenConns :
         lockOwner' = CloseConn(ReleaseLock(lockOwner, LOCK_NAME(proc[p].table), c), c)
    /\ proc' = [proc EXCEPT ![p] = Returned(@, Val(@.resp))]
    /\ UNCHANGED <<store, now, cfg, last>>

\* release_advisory_lock raising in the finally clause: line 452 answers
ReleaseRaise(p) ==
    /\ proc[p].pc = "release"
    /\ proc' = [proc EXCEPT ![p] = Returned(@, RespFail)]
    /\ UNCHANGED <<store, now, cfg, lockOwner, last>>

\* --------------------------------------------- single-item handlers
\* app.py add_product / refresh_product, lines 208-235 and 249-276: the
\* arguments passed to upsert_product
ItemUpsertArgs(c, data) ==
    LET unavail == _infer_unavailable(data)
        pa == OrZero(data.price_after_seller_discount)
    IN  [nm_id |-> data.nm_id, brand |-> data.brand, title |-> data.title,
         price_before |-> IF unavail THEN 0 ELSE OrZero(data.price_before_discount),
         price_after |-> IF unavail THEN Rub(-1) ELSE pa,
         seller_id |-> data.seller_id, seller_name |-> NameOrNone(data.seller_name),
         ui_price |-> IF unavail THEN NULL ELSE calc_ui_price_from_product(c, Some(pa)),
         sales_24h |-> NULL]

\* a handler that calls set_rrc with whatever the heuristic gave, None too
ItemEffectAlwaysSetRrc(rows, c, t, nm_id, card, stop) ==
    LET data == fetch_wb_price(nm_id, card)
        rrc_auto == calc_rrc_from_title(data.title)
        r1 == upsert_product(rows, t, ItemUpsertArgs(c, data))
    IN  IF stop \in {"fetch", "upsert"} THEN rows
        ELSE IF stop = "set_rrc" THEN r1
        ELSE set_rrc(r1, t, data.nm_id, rrc_auto)

\* the table after the handler ran; stop names the call that raised
\* ("fetch", "upsert", "set_rrc") or is "none"
ItemEffect(rows, c, t, nm_id, card, stop) ==
    LET data == fetch_wb_price(nm_id, card)
        rrc_auto == calc_rrc_from_title(data.title)
        r1 == upsert_product(rows, t, ItemUpsertArgs(c, data))
    IN  IF stop \in {"fetch", "upsert"} THEN rows
        ELSE IF IsNull(rrc_auto) \/ stop = "set_rrc" THEN r1
        ELSE set_rrc(r1, t, data.nm_id, rrc_auto)

Stops == {"none", "fetch", "upsert", "set_rrc"}

\* POST /api/products
add_product(t, nm_id, card, stop) ==
    /\ store' = [store EXCEPT ![t] = ItemEffect(@, cfg, now, nm_id, card, stop)]
    /\ UNCHANGED <<now, cfg, lockOwner, proc, last>>

\* POST /api/products/<nm_id>/refresh
refresh_product(t, nm_id, card, stop) ==
    /\ store' = [store EXCEPT ![t] = ItemEffect(@, cfg, now, nm_id, card, stop)]
    /\ UNCHANGED <<now, cfg, lockOwner, proc, last>>

\* POST / PATCH /api/products/<nm_id>/rrc with a number or null
post_rrc(t, nm_id, val) ==
    /\ store' = [store EXCEPT ![t] = set_rrc(@, now, nm_id, val)]
    /\ UNCHANGED <<now, cfg, lockOwner, proc, last>>

\* DELETE /api/products/<nm_id>
delete_product(t, nm_id) ==
    /\ store' = [store EXCEPT ![t] = db_delete(@, nm_id)]
    /\ UNCHANGED <<now, cfg, lockOwner, proc, last>>

\* DELETE /api/products
delete_all(t) ==
    /\ store' = [store EXCEPT ![t] = delete_all_products(@)]
    /\ UNCHANGED <<now, cfg, lockOwner, proc, last>>

\* ----------------------------------------------------------- bulk import
\* A spreadsheet or CSV cell holding a price: [numeric, minus, amount], the
\* amount in hundredths; numeric cells are int / float values, the others
\* are text.  utils.py _parse_price_like keeps the sign of a number and
\* drops every character but digits and the dot from a text.
_parse_price_like(cell) ==
    IF IsNull(cell) THEN NULL
    ELSE LET v == Val(cell) IN
         IF v.numeric THEN Some(IF v.minus THEN 0 - v.amount ELSE v.amount)
         ELSE Some(v.amount)

\* int(round(x)) of a money value: to the nearest whole unit, halves to even
RoundUnits(x) ==
    LET f == x \div 100
        r == x % 100
    IN  IF r < 50 THEN f
        ELSE IF r > 50 THEN f + 1
        ELSE IF f % 2 = 0 THEN f ELSE f + 1

\* utils.py _parse_nm_id of an integer cell
_parse_nm_id(v) ==
    IF IsNull(v) THEN NULL
    ELSE IF NM_ID_MIN <= Val(v) /\ Val(v) <= NM_ID_MAX THEN v ELSE NULL

\* an import that leaves the rows the table already holds as they are
XlsxRowKeepExisting(rows, t, row, fail) ==
    LET nm_val == _parse_nm_id(row.nm)
        rrc_parsed == _parse_price_like(row.rrc)
        r1 == upsert_product(rows, t,
                [nm_id |-> OrZero(nm_val), brand |-> "", title |-> <<>>,
                 price_before |-> 0, price_after |-> 0,
                 seller_id |-> NULL, seller_name |-> NULL,
                 ui_price |-> NULL, sales_24h |-> NULL])
    IN  IF IsNull(nm_val) \/ fail = "upsert" THEN rows
        ELSE IF RowsOf(rows, Val(nm_val)) # {} THEN rows
        ELSE IF IsNull(rrc_parsed) \/ fail = "set_rrc" THEN r1
        ELSE set_rrc(r1, t, Val(nm_val), Some(Rub(RoundUnits(Val(rrc_parsed)))))

\* app.py upload_xlsx, lines 493-526, for one sheet row [nm, rrc]; fail
\* names the call that raised for this row ("upsert", "set_rrc") or is "none"
XlsxRow(rows, t, row, fail) ==
    LET nm_val == _parse_nm_id(row.nm)
        rrc_parsed == _parse_price_like(row.rrc)
        rrc_val == IF IsNull(rrc_parsed) THEN NULL
                   ELSE Some(Rub(RoundUnits(Val(rrc_parsed))))
        r1 == upsert_product(rows, t,
                [nm_id |-> OrZero(nm_val), brand |-> "", title |-> <<>>,
                 price_before |-> 0, price_after |-> 0,
                 seller_id |-> NULL, seller_name |-> NULL,
                 ui_price |-> NULL, sales_24h |-> NULL])
    IN  IF IsNull(nm_val) \/ Val(nm_val) = 0 \/ fail = "upsert" THEN rows
        ELSE IF IsNull(rrc_val) \/ fail = "set_rrc" THEN r1
        ELSE set_rrc(r1, t, Val(nm_val), rrc_val)

RECURSIVE XlsxRows(_, _, _, _)
XlsxRows(rows, t, sheet, fails) ==
    IF sheet = <<>> THEN rows
    ELSE XlsxRows(XlsxRow(rows, t, Head(sheet), Head(fails)), t, Tail(sheet), Tail(fails))

\* POST /api/upload-xlsx
upload_xlsx(t, sheet, fails) ==
    /\ store' = [store EXCEPT ![t] = XlsxRows(@, now, sheet, fails)]
    /\ UNCHANGED <<now, cfg, lockOwner, proc, last>>

\* utils.py iter_ozon_csv_rows, lines 316-349, for one CSV line
\* [nm, title, price, old, seller_id, seller_name]
OzonRec(line) ==
    [nm_id |-> _parse_nm_id(line.nm), title |-> line.title,
     price_after |-> _parse_price_like(line.price),
     price_before |-> _parse_price_like(line.old),
     seller_id |-> line.seller_id, seller_name |-> NameOrNone(line.seller_name)]

\* app.py upload_ozon_csv, lines 557-578, for one CSV line
OzonRow(rows, t, line, fail) ==
    LET rec == OzonRec(line)
        rrc_auto == calc_rrc_from_title(rec.title)
        r1 == upsert_product(rows, t,
                [nm_id |-> OrZero(rec.nm_id), brand |-> "", title |-> rec.title,
                 price_before |-> OrZero(rec.price_before),
                 price_after |-> OrZero(rec.price_after),
                 seller_id |-> rec.seller_id, seller_name |-> rec.seller_name,
                 ui_price |-> NULL, sales_24h |-> NULL])
    IN  IF IsNull(rec.nm_id) \/ Val(rec.nm_id) = 0 \/ fail = "upsert" THEN rows
        ELSE IF IsNull(rrc_auto) \/ fail = "set_rrc" THEN r1
        ELSE set_rrc(r1, t, Val(rec.nm_id), rrc_auto)

RECURSIVE OzonRows(_, _, _, _)
OzonRows(rows, t, lines, fails) ==
    IF lines = <<>> THEN rows
    ELSE OzonRows(OzonRow(rows, t, Head(lines), Head(fails)), t, Tail(lines), Tail(fails))

\* POST /api/upload-ozon-csv: always the Ozon table
upload_ozon_csv(lines, fails) ==
    /\ store' = [store EXCEPT ![DB_TABLE_OZON] = OzonRows(@, now, lines, fails)]
    /\ UNCHANGED <<now, cfg, lockOwner, proc, last>>

\* ------------------------------------------------------------- the clock
Tick ==
    /\ now < MaxNow
    /\ now' = now + 1
    /\ UNCHANGED <<store, cfg, lockOwner, proc, last>>

\* ------------------------------------------------------------ universes
\* titles: "... 650 ... 50 ml", "... 750 ...", "... 900 ...", no number
T650 == <<[num |-> 650, digits |-> 3, unit |-> FALSE], [num |-> 50, digits |-> 2, unit |-> TRUE]>>
T750 == <<[num |-> 750, digits |-> 3, unit |-> FALSE]>>
T900 == <<[num |-> 900, digits |-> 3, unit |-> FALSE]>>

\* cards of the price source: a seller below the title's floor (1200.00
\* against 1300), a seller above it (1599.50 against 1500), a card without
\* a priced size, a card whose title gives no floor
CardLow ==
    [brand |-> "B", name |-> T650, supplierId |-> Some(1), supplier |-> Some(1),
     sizes |-> <<[basic |-> NULL, product |-> NULL],
                 [basic |-> Some(200000), product |-> Some(120000)]>>]
CardHigh ==
    [brand |-> "", name |-> T750, supplierId |-> Some(2), supplier |-> Some(0),
     sizes |-> <<[basic |-> Some(180000), product |-> Some(159950)]>>]
CardLowB ==
    [brand |-> "B", name |-> T650, supplierId |-> Some(2), supplier |-> Some(2),
     sizes |-> <<[basic |-> Some(200000), product |-> Some(125000)]>>]
CardGone ==
    [brand |-> "B", name |-> <<>>, supplierId |-> NULL, supplier |-> NULL,
     sizes |-> <<[basic |-> Some(0), product |-> Some(50000)]>>]
CardPlain ==
    [brand |-> "B", name |-> T900, supplierId |-> Some(1), supplier |-> Some(2),
     sizes |-> <<[basic |-> Some(100000), product |-> Some(100000)]>>]

Cards == {CardLow, CardLowB, CardHigh, CardGone, CardPlain}

Procs == {1, 2}
Limits == 1..MaxLimit
LockNames == {LOCK_NAME(t) : t \in ALLOWED_TABLES}

\* a row nobody has refreshed yet, loaded into the table outside the API
BareRow(nm) ==
    [nm_id |-> nm, brand |-> "", title |-> <<>>, seller_id |-> NULL, seller_name |-> NULL,
     price_before_discount |-> NULL, price_after_seller_discount |-> NULL,
     ui_price |-> NULL, rrc |-> NULL, updated_at |-> NULL, sales_24h |-> NULL]

\* the configuration of the request-level specifications: the defaults with
\* the working hours moved onto the model's clock
WorkCfg == [DefaultCfg EXCEPT !.work_start = 0, !.work_end = 2]

\* ---------------------------------------------- the requests of one worker
\* do_one_batch
DoOneBatch(p, cards) ==
    \/ Select(p)
    \/ SelectRaise(p)
    \/ \E card \in cards : Fetch(p, card)
    \/ FetchRaise(p)
    \/ Upsert(p)
    \/ UpsertRaise(p)
    \/ SetRrc(p)
    \/ SetRrcRaise(p)
    \/ Count(p)
    \/ CountRaise(p)

\* the alert block of either branch
AlertSteps(p) ==
    \/ Alert(p)
    \/ AlertRaise(p)

\* what only the full sweep does
SweepSteps(p) ==
    \/ AcquireLock(p)
    \/ AcquireRaise(p)
    \/ AcquireClose(p)
    \/ FinalRemaining(p)
    \/ FinalDone(p)
    \/ FinalRaise(p)
    \/ Release(p)
    \/ ReleaseRaise(p)

InitCommon ==
    /\ now = 0
    /\ lockOwner = [n \in LockNames |-> 0]
    /\ proc = [p \in Procs |-> IdleProc]
    /\ last = NoLast

\* ------------------------------------------------------- specifications
\* Spec: incremental refresh_batch requests of one worker on a catalog that
\* the bulk import fills, next to the clock.
ReqCards == {CardLow, CardGone}
BatchCards == {CardLow, CardLowB, CardGone}

Init ==
    /\ InitCommon
    /\ store = [t \in ALLOWED_TABLES |-> {}]
    /\ cfg = WorkCfg

Import ==
    \E nm \in ReqNmIds :
       upload_xlsx(DB_TABLE_DEFAULT, <<[nm |-> Some(nm), rrc |-> NULL]>>, <<"none">>)

StartBatch(p) ==
    \E lim \in Limits, silent \in BOOLEAN : Start(p, DB_TABLE_DEFAULT, lim, silent, FALSE)

Next ==
    \/ StartBatch(1)
    \/ DoOneBatch(1, BatchCards)
    \/ AlertSteps(1)
    \/ Import
    \/ Tick

Spec == Init /\ [][Next]_vars

\* SpecApi: every handler that writes the catalogs, the single-item ones
\* and the imports as one step each, next to a silent refresh_batch.
TextCell(minus, amount) == Some([numeric |-> FALSE, minus |-> minus, amount |-> amount])
NumCell(minus, amount) == Some([numeric |-> TRUE, minus |-> minus, amount |-> amount])

\* sheets of one row: a product id with no floor, with "1 500,00", with -1
Sheets ==
    {<<[nm |-> Some(nm), rrc |-> c]>> :
        nm \in FewNmIds, c \in {NULL, TextCell(FALSE, Rub(1500)), NumCell(TRUE, Rub(1))}}

\* CSV files of one line: price "-1", or a price and an old price
OzonFiles ==
    {<<[nm |-> Some(NM_ID_MIN + 1), title |-> T650, price |-> c[1], old |-> c[2],
        seller_id |-> Some(1), seller_name |-> Some(1)]>> :
        c \in {<<TextCell(TRUE, Rub(1)), NULL>>,
               <<TextCell(FALSE, Rub(1200)), TextCell(FALSE, Rub(2000))>>}}

ApiSteps ==
    \/ \E nm \in FewNmIds, card \in ReqCards, stop \in Stops :
          add_product(DB_TABLE_DEFAULT, nm, card, stop)
    \/ \E nm \in FewNmIds, card \in ReqCards, stop \in Stops :
          refresh_product(DB_TABLE_DEFAULT, nm, card, stop)
    \/ \E nm \in FewNmIds, val \in {NULL, Some(Rub(1500))} :
          post_rrc(DB_TABLE_DEFAULT, nm, val)
    \/ \E nm \in FewNmIds : delete_product(DB_TABLE_DEFAULT, nm)
    \/ \E t \in ALLOWED_TABLES : delete_all(t)
    \/ \E sheet \in Sheets, fail \in {"none", "upsert", "set_rrc"} :
          upload_xlsx(DB_TABLE_DEFAULT, sheet, <<fail>>)
    \/ \E lines \in OzonFiles, fail \in {"none", "upsert", "set_rrc"} :
          upload_ozon_csv(lines, <<fail>>)

NextApi ==
    \/ Start(1, DB_TABLE_DEFAULT, 1, TRUE, FALSE)
    \/ DoOneBatch(1, ReqCards)
    \/ ApiSteps
    \/ Tick

SpecApi == Init /\ [][NextApi]_vars

\* SpecSweep: two workers serving full=1 requests on the same catalog.
SweepCards == {CardLow}

InitSweep ==
    /\ InitCommon
    /\ store = [t \in ALLOWED_TABLES |->
                  IF t = DB_TABLE_DEFAULT THEN {BareRow(nm) : nm \in FewNmIds} ELSE {}]
    /\ cfg = WorkCfg

StartSweep(p) ==
    \E silent \in BOOLEAN : Start(p, DB_TABLE_DEFAULT, 1, silent, TRUE)

NextSweep ==
    \E p \in Procs :
       \/ StartSweep(p)
       \/ DoOneBatch(p, SweepCards)
       \/ AlertSteps(p)
       \/ SweepSteps(p)

SpecSweep == InitSweep /\ [][NextSweep]_vars

\* SpecRefresh: refresh_batch requests of one worker, incremental or full,
\* on a loaded catalog, next to the clock.
InitRefresh ==
    /\ InitCommon
    /\ store = [t \in ALLOWED_TABLES |->
                  IF t = DB_TABLE_DEFAULT THEN {BareRow(nm) : nm \in ReqNmIds} ELSE {}]
    /\ cfg = WorkCfg

\* limit=0 selects no rows
RefreshLimits == {0, 1}

StartRefresh(p) ==
    \E lim \in RefreshLimits, silent, full \in BOOLEAN :
       Start(p, DB_TABLE_DEFAULT, lim, silent, full)

NextRefresh ==
    \/ StartRefresh(1)
    \/ DoOneBatch(1, BatchCards)
    \/ AlertSteps(1)
    \/ SweepSteps(1)
    \/ Tick

SpecRefresh == InitRefresh /\ [][NextRefresh]_vars

\* the handler of a request that was taken runs on: each of its steps
\* returns or raises (the fetch has a timeout)
Handler(p) ==
    \/ DoOneBatch(p, BatchCards)
    \/ AlertSteps(p)
    \/ SweepSteps(p)

SpecRefreshFair == SpecRefresh /\ WF_vars(Handler(1))

\* SpecForced: a client pages through the catalog with
\* refresh-batch?force=1&limit=1&offset=..., next to the clock. The handler
\* reads table, limit, silent and full only (lines 341-344): the request is
\* served by the incremental branch, its force and offset stay in the query
\* string.
Offsets == 0..MaxReqNm

StartForced(p) ==
    \E off \in Offsets, silent \in BOOLEAN :
       /\ proc[p].pc \in {"idle", "done"}
       /\ proc' = [proc EXCEPT ![p] =
                     [IdleProc EXCEPT !.pc = "select", !.table = DB_TABLE_DEFAULT,
                                      !.limit = 1, !.silent = silent, !.full = FALSE]]
       /\ last' = [op |-> "refresh_batch", force |-> TRUE, limit |-> 1, offset |-> off]
       /\ UNCHANGED <<store, now, cfg, lockOwner>>

NextForced ==
    \/ StartForced(1)
    \/ DoOneBatch(1, BatchCards)
    \/ AlertSteps(1)
    \/ Tick

SpecForced == InitRefresh /\ [][NextForced]_vars

\* SpecUi: calc_ui_price_from_product applied to base prices from -1.00 up
\* in steps of 0.05, under wallet percents 0, 3 and 25, thresholds 0, 5 and
\* 8 and steps 0, 1 and 3.
MaxBase == 240
BasePrices == {5 * k : k \in -20..MaxBase}

UiCfgs ==
    {[DefaultCfg EXCEPT !.wallet = w, !.thr = th, !.step = st] :
        w \in {0, 3, 25}, th \in {0, 5, 8}, st \in {0, 1, 3}}

InitUi ==
    /\ InitCommon
    /\ store = [t \in ALLOWED_TABLES |-> {}]
    /\ cfg \in UiCfgs

ApplyUi ==
    /\ \E v \in {[bad |-> FALSE, base |-> NULL], [bad |-> TRUE, base |-> NULL]}
                \cup {[bad |-> FALSE, base |-> Some(b)] : b \in BasePrices} :
          last' = [op |-> "calc_ui_price_from_product", arg |-> v,
                   res |-> CalcUiOfValue(cfg, v)]
    /\ UNCHANGED <<store, now, cfg, lockOwner, proc>>

NextUi == ApplyUi

SpecUi == InitUi /\ [][NextUi]_vars

\* SpecPair: two workers serve one incremental refresh_batch call each on
\* the same catalog of never-checked rows; the price source is
\* deterministic (one card per product id) and no call to the store fails.
CardOf(nm) == IF nm % 2 = 1 THEN CardLow ELSE CardPlain

PairRows == {BareRow(nm) : nm \in ReqNmIds}

InitPair ==
    /\ InitCommon
    /\ store = [t \in ALLOWED_TABLES |-> IF t = DB_TABLE_DEFAULT THEN PairRows ELSE {}]
    /\ cfg = WorkCfg

StartOnce(p) ==
    /\ proc[p].pc = "idle"
    /\ \E lim \in Limits : Start(p, DB_TABLE_DEFAULT, lim, TRUE, FALSE)

NextPair ==
    \/ \E p \in Procs :
          \/ StartOnce(p)
          \/ Select(p)
          \/ proc[p].pc = "fetch" /\ Fetch(p, CardOf(CurId(proc[p])))
          \/ Upsert(p)
          \/ SetRrc(p)
          \/ Count(p)
    \/ Tick

SpecPair == InitPair /\ [][NextPair]_vars

\* SpecScope: two workers, each with silent refresh_batch requests on either
\* catalog, incremental or full, both catalogs loaded.
InitScope ==
    /\ InitCommon
    /\ store = [t \in ALLOWED_TABLES |-> {BareRow(nm) : nm \in FewNmIds}]
    /\ cfg = WorkCfg

StartScope(p) ==
    \E t \in ALLOWED_TABLES, full \in BOOLEAN : Start(p, t, 1, TRUE, full)

NextScope ==
    \E p \in Procs :
       \/ StartScope(p)
       \/ DoOneBatch(p, SweepCards)
       \/ SweepSteps(p)

SpecScope == InitScope /\ [][NextScope]_vars

\* SpecConverge: one worker refreshes a catalog of rows that are all due,
\* call after call, incremental or full; the price source and the store
\* always answer, nobody else writes. last keeps, for the call under way,
\* the ids that were due when it started and the ids it has fetched.
ConvergeCards == {CardLow, CardGone}

DueIds(rows, c, t) == {r.nm_id : r \in {x \in rows : _where_need_refresh(c, t, x)}}

InitConverge ==
    /\ InitCommon
    /\ \E S \in SUBSET NmIds :
          store = [t \in ALLOWED_TABLES |->
                     IF t = DB_TABLE_DEFAULT THEN {BareRow(nm) : nm \in S} ELSE {}]
    /\ cfg = WorkCfg

StartLogged(p) ==
    \E lim \in Limits, full \in BOOLEAN :
       /\ proc[p].pc \in {"idle", "done"}
       /\ proc' = [proc EXCEPT ![p] =
                     [IdleProc EXCEPT !.pc = IF full THEN "acquire" ELSE "select",
                                      !.table = DB_TABLE_DEFAULT, !.limit = lim,
                                      !.silent = TRUE, !.full = full]]
       /\ last' = [op |-> "refresh_batch",
                   due |-> DueIds(store[DB_TABLE_DEFAULT], cfg, now),
                   fetched |-> <<>>]
       /\ UNCHANGED <<store, now, cfg, lockOwner>>

\* line 354, the price source answered
FetchLogged(p, card) ==
    /\ proc[p].pc = "fetch"
    /\ proc' = [proc EXCEPT ![p].data = Some(fetch_wb_price(CurId(proc[p]), card)),
                            ![p].pc = "upsert"]
    /\ last' = [last EXCEPT !.fetched = Append(@, CurId(proc[p]))]
    /\ UNCHANGED <<store, now, cfg, lockOwner>>

NextConverge ==
    \/ StartLogged(1)
    \/ AcquireLock(1)
    \/ AcquireClose(1)
    \/ Select(1)
    \/ \E card \in ConvergeCards : FetchLogged(1, card)
    \/ Upsert(1)
    \/ SetRrc(1)
    \/ Count(1)
    \/ FinalRemaining(1)
    \/ FinalDone(1)
    \/ Release(1)

SpecConverge == InitConverge /\ [][NextConverge]_vars

\* the worker keeps being sent requests and every request runs to its end
SpecConvergeFair == SpecConverge /\ WF_vars(NextConverge)

\* SpecRecheck: one worker with silent refresh_batch requests, incremental
\* or full, on a loaded catalog that the bulk import fills and resets and
\* from which products are deleted; the price source and the store may fail per item.
StartRecheck(p) ==
    \E lim \in Limits, full \in BOOLEAN : Start(p, DB_TABLE_DEFAULT, lim, TRUE, full)

DeleteOne == \E nm \in ReqNmIds : delete_product(DB_TABLE_DEFAULT, nm)

NextRecheck ==
    \/ StartRecheck(1)
    \/ AcquireLock(1)
    \/ AcquireClose(1)
    \/ Select(1)
    \/ \E card \in ConvergeCards : Fetch(1, card)
    \/ FetchRaise(1)
    \/ Upsert(1)
    \/ UpsertRaise(1)
    \/ SetRrc(1)
    \/ SetRrcRaise(1)
    \/ Count(1)
    \/ FinalRemaining(1)
    \/ FinalDone(1)
    \/ Release(1)
    \/ Import
    \/ DeleteOne
    \/ delete_all(DB_TABLE_DEFAULT)

SpecRecheck == InitRefresh /\ [][NextRecheck]_vars

\* SpecTitle: calc_rrc_from_title applied to titles of up to two numbers,
\* each a digit run with or without a unit after it.
TitleNumbers == {0, 50, 650, 699, 700, 800, 801, 900, 9999, 10000}

TitleTokens ==
    {[num |-> n,
      digits |-> IF n >= 10000 THEN 5 ELSE IF n >= 1000 THEN 4
                 ELSE IF n >= 100 THEN 3 ELSE IF n >= 10 THEN 2 ELSE 1,
      unit |-> u] :
        n \in TitleNumbers, u \in BOOLEAN}

Titles == {<<>>} \cup {<<a>> : a \in TitleTokens}
                \cup {<<a, b>> : a \in TitleTokens, b \in TitleTokens}

InitTitle ==
    /\ InitCommon
    /\ store = [t \in ALLOWED_TABLES |-> {}]
    /\ cfg = DefaultCfg

ApplyTitle ==
    \E title \in Titles :
       /\ last' = [op |-> "calc_rrc_from_title", arg |-> title,
                   res |-> calc_rrc_from_title(title)]
       /\ UNCHANGED <<store, now, cfg, lockOwner, proc>>

NextTitle == ApplyTitle

SpecTitle == InitTitle /\ [][NextTitle]_vars

\* SpecStarve: one worker refreshes a loaded catalog call after call,
\* incremental or full, without a limit parameter (BATCH_REFRESH_LIMIT
\* applies); the price source has no card for some of the ids, whose fetch
\* fails on every attempt. last holds the ids the price source lacks.
InitStarve ==
    /\ now = 0
    /\ lockOwner = [n \in LockNames |-> 0]
    /\ proc = [p \in Procs |-> IdleProc]
    /\ \E F \in SUBSET NmIds : last = [op |-> "price_source", missing |-> F]
    /\ store = [t \in ALLOWED_TABLES |->
                  IF t = DB_TABLE_DEFAULT THEN {BareRow(nm) : nm \in NmIds} ELSE {}]
    /\ \E lim \in Limits : cfg = [WorkCfg EXCEPT !.batch_limit = lim]

StartDefaultLimit(p) ==
    \E full \in BOOLEAN : Start(p, DB_TABLE_DEFAULT, cfg.batch_limit, TRUE, full)

\* line 354: the price source answers for the ids it has, raises for the rest
FetchFrom(p) ==
    /\ proc[p].pc = "fetch"
    /\ IF CurId(proc[p]) \in last.missing
       THEN FetchRaise(p)
       ELSE \E card \in ConvergeCards : Fetch(p, card)

NextStarve ==
    \/ StartDefaultLimit(1)
    \/ AcquireLock(1)
    \/ AcquireClose(1)
    \/ Select(1)
    \/ FetchFrom(1)
    \/ Upsert(1)
    \/ SetRrc(1)
    \/ Count(1)
    \/ FinalRemaining(1)
    \/ FinalDone(1)
    \/ Release(1)

SpecStarve == InitStarve /\ [][NextStarve]_vars

\* the worker keeps being sent requests and every request runs to its end
SpecStarveFair == SpecStarve /\ WF_vars(NextStarve)

\* SpecAlert: one worker with refresh_batch requests that are not silent,
\* inside the working hours, on a catalog whose rows are all refreshed: under
\* the floor for seller 1, for seller 2, for a card that names no seller, or
\* not under any floor.
CardAnon == [CardLow EXCEPT !.supplierId = NULL, !.supplier = NULL]

AlertCards == {CardLow, CardLowB, CardAnon, CardPlain}

InitAlert ==
    /\ InitCommon
    /\ cfg = WorkCfg
    /\ \E f \in [NmIds -> AlertCards] :
          store = [t \in ALLOWED_TABLES |->
                     IF t = DB_TABLE_DEFAULT
                     THEN UNION {ItemEffect({}, WorkCfg, 0, nm, f[nm], "none") : nm \in NmIds}
                     ELSE {}]

StartAlerting(p) ==
    \E full \in BOOLEAN : Start(p, DB_TABLE_DEFAULT, 1, FALSE, full)

NextAlert ==
    \/ StartAlerting(1)
    \/ AcquireLock(1)
    \/ AcquireClose(1)
    \/ Select(1)
    \/ Count(1)
    \/ Alert(1)
    \/ AlertRaise(1)
    \/ FinalRemaining(1)
    \/ FinalDone(1)
    \/ Release(1)

SpecAlert == InitAlert /\ [][NextAlert]_vars

\* SpecTable: the handlers called with every kind of ?table= value; last
\* keeps the request, its parameter and the table its store calls were given.
\* A parameter is absent (NULL) or a text, given as its stripped form and
\* whether blanks surrounded it.
TableParams ==
    {NULL} \cup {Some([name |-> n, padded |-> FALSE]) :
                   n \in {DB_TABLE_DEFAULT, DB_TABLE_OZON, "tg_admins",
                          "products; DROP TABLE products"}}
           \cup {Some([name |-> n, padded |-> TRUE]) : n \in {"", DB_TABLE_OZON}}

\* a resolver that passes every non-empty name on
ResolveTableTrusting(v) ==
    LET t == IF IsNull(v) THEN "" ELSE Val(v).name
    IN  IF t # "" THEN t ELSE DB_TABLE_DEFAULT

\* app.py resolve_table: (request.args.get("table") or "").strip()
resolve_table(v) ==
    LET t == IF IsNull(v) THEN "" ELSE Val(v).name
    IN  IF t \in ALLOWED_TABLES THEN t ELSE DB_TABLE_DEFAULT

\* refresh_batch?table=v
StartWithParam(p) ==
    \E v \in TableParams, silent, full \in BOOLEAN :
       /\ proc[p].pc \in {"idle", "done"}
       /\ proc' = [proc EXCEPT ![p] =
                     [IdleProc EXCEPT !.pc = IF full THEN "acquire" ELSE "select",
                                      !.table = resolve_table(v), !.limit = 1,
                                      !.silent = silent, !.full = full]]
       /\ last' = [op |-> "refresh_batch", param |-> v, table |-> resolve_table(v)]
       /\ UNCHANGED <<store, now, cfg, lockOwner>>

TableHandlers == {"add_product", "refresh_product", "post_rrc", "delete_product",
                  "delete_all", "upload_xlsx"}

\* the other handlers that take ?table=v, one step each, taken between two
\* refresh_batch calls; the locals of the call that returned are gone
TableRequest ==
    \E v \in TableParams, h \in TableHandlers, nm \in FewNmIds :
       LET t == resolve_table(v)
           rows == store[t]
           eff == CASE h \in {"add_product", "refresh_product"} ->
                         ItemEffect(rows, cfg, now, nm, CardLow, "none")
                    [] h = "post_rrc" -> set_rrc(rows, now, nm, Some(Rub(1500)))
                    [] h = "delete_product" -> db_delete(rows, nm)
                    [] h = "delete_all" -> delete_all_products(rows)
                    [] h = "upload_xlsx" ->
                         XlsxRows(rows, now, <<[nm |-> Some(nm), rrc |-> NULL]>>, <<"none">>)
       IN  /\ proc[1].pc \in {"idle", "done"}
           /\ store' = [store EXCEPT ![t] = eff]
           /\ last' = [op |-> h, param |-> v, table |-> t]
           /\ proc' = [proc EXCEPT ![1] = IdleProc]
       /\ UNCHANGED <<now, cfg, lockOwner>>

NextTable ==
    \/ StartWithParam(1)
    \/ DoOneBatch(1, SweepCards)
    \/ AlertSteps(1)
    \/ SweepSteps(1)
    \/ TableRequest

SpecTable == Init /\ [][NextTable]_vars

\* SpecWindow: is_work_time() asked at every hour of a day, under every
\* window and some time zone offsets.
DayHours == 0..23
TzOffsets == {-5, 0, 3}

InitWindow ==
    /\ InitCommon
    /\ store = [t \in ALLOWED_TABLES |-> {}]
    /\ cfg \in {[DefaultCfg EXCEPT !.work_start = s, !.work_end = e, !.tz = z] :
                   s \in DayHours, e \in DayHours, z \in TzOffsets}

AskWorkTime ==
    /\ last' = [op |-> "is_work_time", h |-> now_local_hour(cfg, now),
                res |-> is_work_time(cfg, now)]
    /\ UNCHANGED <<store, now, cfg, lockOwner, proc>>

TickHour ==
    /\ now + 1 \in DayHours
    /\ now' = now + 1
    /\ last' = NoLast
    /\ UNCHANGED <<store, cfg, lockOwner, proc>>

NextWindow == AskWorkTime \/ TickHour

SpecWindow == InitWindow /\ [][NextWindow]_vars

\* SpecStore: the table operations and queries of db.py called one after
\* the other on a table whose rows earlier requests have written.
\* The table holding the one row of nm that a request wrote at hour t: a
\* row loaded outside the API, an imported row, a row refreshed to "not on
\* sale" whose floor the operator set, a refreshed row below its floor.
SeedKinds == {"absent", "bare", "imported", "gone", "low", "lowB"}

SeedTable(nm, kind, t) ==
    CASE kind = "absent" -> {}
      [] kind = "bare" -> {BareRow(nm)}
      [] kind = "imported" -> XlsxRow({}, t, [nm |-> Some(nm), rrc |-> NULL], "none")
      [] kind = "gone" ->
           set_rrc(ItemEffect({}, DefaultCfg, t, nm,
                              [CardGone EXCEPT !.supplierId = Some(1), !.supplier = Some(1)],
                              "none"),
                   t, nm, Some(Rub(1500)))
      [] kind = "low" -> ItemEffect({}, DefaultCfg, t, nm, CardLow, "none")
      [] kind = "lowB" -> ItemEffect({}, DefaultCfg, t, nm, CardLowB, "none")

StoreCfgs == {DefaultCfg, [DefaultCfg EXCEPT !.stale = 1]}

InitStore ==
    /\ lockOwner = [n \in LockNames |-> 0]
    /\ proc = [p \in Procs |-> IdleProc]
    /\ last = NoLast
    /\ cfg \in StoreCfgs
    /\ now \in Hours
    /\ \E f \in [NmIds -> SeedKinds \X Hours] :
          /\ \A nm \in NmIds : f[nm][2] <= now
          /\ \A nm \in NmIds : f[nm][1] \in {"absent", "bare"} => f[nm][2] = 0
          /\ store = [t \in ALLOWED_TABLES |->
                        IF t = DB_TABLE_DEFAULT
                        THEN UNION {SeedTable(nm, f[nm][1], f[nm][2]) : nm \in NmIds}
                        ELSE {}]

\* the argument records offered to upsert_product
UpsertArgSet ==
    {BatchUpsertArgs(DefaultCfg, fetch_wb_price(nm, card)) :
        nm \in NmIds, card \in {CardLow, CardGone}}
    \cup {[nm_id |-> nm, brand |-> "", title |-> <<>>, price_before |-> 0,
           price_after |-> 0, seller_id |-> NULL, seller_name |-> NULL,
           ui_price |-> NULL, sales_24h |-> Some(7)] : nm \in NmIds}

DbUpsert(t, a) ==
    /\ store' = [store EXCEPT ![t] = upsert_product(@, now, a)]
    /\ last' = [op |-> "upsert_product", table |-> t, args |-> a,
                again |-> /\ last.op = "upsert_product"
                          /\ last.table = t /\ last.args = a]
    /\ UNCHANGED <<now, cfg, lockOwner, proc>>

DbSetRrc(t, nm, val) ==
    /\ store' = [store EXCEPT ![t] = set_rrc(@, now, nm, val)]
    /\ last' = [op |-> "set_rrc", table |-> t]
    /\ UNCHANGED <<now, cfg, lockOwner, proc>>

DbDelete(t, nm) ==
    /\ store' = [store EXCEPT ![t] = db_delete(@, nm)]
    /\ last' = [op |-> "delete_product", table |-> t]
    /\ UNCHANGED <<now, cfg, lockOwner, proc>>

QueryRefresh(t, limit) ==
    /\ last' = [op |-> "list_nm_ids_for_refresh", table |-> t, limit |-> limit, at |-> now,
                res |-> list_nm_ids_for_refresh(store[t], cfg, now, limit)]
    /\ UNCHANGED <<store, now, cfg, lockOwner, proc>>

QueryCount(t) ==
    /\ last' = [op |-> "count_needing_refresh", table |-> t, at |-> now,
                res |-> count_needing_refresh(store[t], cfg, now)]
    /\ UNCHANGED <<store, now, cfg, lockOwner, proc>>

QuerySellers(t) ==
    /\ LET res == list_sellers_with_violations(store[t])
       IN  \E s \in AlertOrders(res.rows) :
              last' = [op |-> "list_sellers_with_violations", table |-> t, at |-> now,
                       res |-> res, list |-> s]
    /\ UNCHANGED <<store, now, cfg, lockOwner, proc>>

SellerIds == {1, 2}

QueryViolationsForSeller(t, seller_id) ==
    /\ last' = [op |-> "list_violations_for_seller", table |-> t, at |-> now,
                seller_id |-> seller_id,
                res |-> list_violations_for_seller(store[t], seller_id)]
    /\ UNCHANGED <<store, now, cfg, lockOwner, proc>>

NextStore ==
    \/ \E limit \in Limits : QueryRefresh(DB_TABLE_DEFAULT, limit)
    \/ \E sid \in SellerIds : QueryViolationsForSeller(DB_TABLE_DEFAULT, sid)
    \/ QueryCount(DB_TABLE_DEFAULT)
    \/ QuerySellers(DB_TABLE_DEFAULT)
    \/ Tick

SpecStore == InitStore /\ [][NextStore]_vars

\* SpecImport: upload_xlsx called again and again with sheets of one row on a
\* table whose rows earlier requests have written; last keeps the sheet, the
\* call that raised and the table as it was before the request.
ImportCells ==
    {NULL, TextCell(FALSE, Rub(1400) + 60), NumCell(TRUE, Rub(1))}

ImportNmCells == {Some(nm) : nm \in ReqNmIds} \cup {NULL, Some(NM_ID_MIN - 1)}

InitImport ==
    /\ InitCommon
    /\ cfg = DefaultCfg
    /\ \E f \in [ReqNmIds -> SeedKinds] :
          store = [t \in ALLOWED_TABLES |->
                     IF t = DB_TABLE_DEFAULT
                     THEN UNION {SeedTable(nm, f[nm], 0) : nm \in ReqNmIds}
                     ELSE {}]

UploadLogged ==
    \E nm \in ImportNmCells, c \in ImportCells, fail \in {"none", "upsert", "set_rrc"} :
       LET row == [nm |-> nm, rrc |-> c] IN
       /\ store' = [store EXCEPT ![DB_TABLE_DEFAULT] = XlsxRows(@, now, <<row>>, <<fail>>)]
       /\ last' = [op |-> "upload_xlsx", row |-> row, fail |-> fail, at |-> now,
                   before |-> store[DB_TABLE_DEFAULT]]
       /\ UNCHANGED <<now, cfg, lockOwner, proc>>

NextImport ==
    \/ UploadLogged
    \/ Tick

SpecImport == InitImport /\ [][NextImport]_vars

\* SpecAgree: the two refresh paths given the same result of the price
\* source for the same row.  The results are those fetch_wb_price builds
\* from a card and the same results carrying an explicit in_stock or
\* available flag set to False, which _infer_unavailable reads.
Flags == {"none", "in_stock", "available"}

WithFlag(data, flag) ==
    CASE flag = "in_stock" -> [data EXCEPT !.in_stock = Some(FALSE)]
      [] flag = "available" -> [data EXCEPT !.available = Some(FALSE)]
      [] OTHER -> data

\* app.py refresh_product, lines 247-281, once fetch_wb_price returned data
RefreshOneWith(rows, c, t, data) ==
    LET rrc_auto == calc_rrc_from_title(data.title)
        r1 == upsert_product(rows, t, ItemUpsertArgs(c, data))
    IN  IF IsNull(rrc_auto) THEN r1 ELSE set_rrc(r1, t, data.nm_id, rrc_auto)

\* app.py do_one_batch, lines 352-377, once fetch_wb_price returned data
BatchOneWith(rows, c, t, data) ==
    LET rrc_auto == calc_rrc_from_title(data.title)
        r1 == upsert_product(rows, t, BatchUpsertArgs(c, data))
    IN  IF IsNull(rrc_auto) THEN r1 ELSE set_rrc(r1, t, data.nm_id, rrc_auto)

InitAgree ==
    /\ InitCommon
    /\ cfg \in {DefaultCfg, [DefaultCfg EXCEPT !.wallet = 3]}
    /\ \E f \in [ReqNmIds -> SeedKinds] :
          store = [t \in ALLOWED_TABLES |->
                     IF t = DB_TABLE_DEFAULT
                     THEN UNION {SeedTable(nm, f[nm], 0) : nm \in ReqNmIds}
                     ELSE {}]

\* one id refreshed by the single-item handler or as an item of a batch;
\* last keeps the result of the price source and what each path makes of it
RefreshEither ==
    \E nm \in ReqNmIds, card \in {CardLow, CardGone, CardPlain}, flag \in Flags,
       path \in {"refresh_product", "refresh_batch"} :
       LET data == WithFlag(fetch_wb_price(nm, card), flag)
           single == RefreshOneWith(store[DB_TABLE_DEFAULT], cfg, now, data)
           batch == BatchOneWith(store[DB_TABLE_DEFAULT], cfg, now, data)
       IN  /\ store' = [store EXCEPT ![DB_TABLE_DEFAULT] =
                          IF path = "refresh_product" THEN single ELSE batch]
           /\ last' = [op |-> path, data |-> data, single |-> single, batch |-> batch]
           /\ UNCHANGED <<now, cfg, lockOwner, proc>>

NextAgree == RefreshEither

SpecAgree == InitAgree /\ [][NextAgree]_vars

\* SpecUpsert: the writing operations of db.py called one after the other
\* on an empty table.
InitUpsert ==
    /\ InitCommon
    /\ store = [t \in ALLOWED_TABLES |-> {}]
    /\ cfg = DefaultCfg

NextUpsert ==
    \/ \E a \in UpsertArgSet : DbUpsert(DB_TABLE_DEFAULT, a)
    \/ \E nm \in NmIds, val \in {NULL, Some(Rub(1500))} : DbSetRrc(DB_TABLE_DEFAULT, nm, val)
    \/ \E nm \in NmIds : DbDelete(DB_TABLE_DEFAULT, nm)
    \/ Tick

SpecUpsert == InitUpsert /\ [][NextUpsert]_vars

\* ================================================================ claims
\* ------------------------------------------------------------ full sweep
\* the invocation p is a full sweep of catalog t that has not returned
SweepRunning(p, t) ==
    /\ proc[p].full /\ proc[p].table = t
    /\ proc[p].pc \notin {"idle", "done"}

\* p is inside the sweep loop of lines 418-429: selecting, fetching, writing
InSweepLoop(p, t) ==
    /\ proc[p].full /\ proc[p].table = t /\ proc[p].got
    /\ proc[p].pc \in {"select", "fetch", "upsert", "set_rrc", "count"}

\* C1: of the full-sweep invocations on one catalog at most one is inside
\* the sweep loop (selecting, fetching, upserting) at any moment.
C1_SweepMutualExclusion ==
    \A t \in ALLOWED_TABLES :
       \A p, q \in Procs :
          InSweepLoop(p, t) /\ InSweepLoop(q, t) => p = q

\* C2: once a full sweep that acquired the catalog's lock has returned and
\* no full sweep is running on the catalog, the lock is free: GET_LOCK on
\* any connection of the pool is granted, so the next full sweep is not
\* answered locked=true.
C2_LockFreeAfterReturn ==
    \A t \in ALLOWED_TABLES :
       (/\ \E p \in Procs : proc[p].pc = "done" /\ proc[p].full
                             /\ proc[p].table = t /\ proc[p].got
        /\ \A q \in Procs : ~SweepRunning(q, t))
       => /\ lockOwner[LOCK_NAME(t)] = 0
          /\ \A c \in Conns : GetLockGranted(lockOwner, LOCK_NAME(t), c)

\* C2: the case happens: a sweep that acquired the lock and then failed with
\* an exception has returned ok=false, nothing else runs, the lock is free
C2_Witness ==
    \E p \in Procs :
       /\ proc[p].pc = "done" /\ proc[p].full /\ proc[p].got
       /\ Val(proc[p].resp).ok = FALSE
       /\ \A q \in Procs : ~SweepRunning(q, proc[p].table)
       /\ lockOwner[LOCK_NAME(proc[p].table)] = 0

\* ------------------------------------------------------------ selection
IsGone(r) == r.price_after_seller_discount = Some(Rub(-1))
GoneRows(rows) == {r \in rows : IsGone(r)}
ResultIds(res) == {res[i] : i \in DOMAIN res}
RowOf(rows, nm) == CHOOSE r \in rows : r.nm_id = nm

QueriedRefresh == last.op = "list_nm_ids_for_refresh"
QueriedCount == last.op = "count_needing_refresh"
QueriedSellers == last.op = "list_sellers_with_violations"

\* what the three queries say about the rows whose price is -1: the
\* selection does not return them, the count and the sellers' list are what
\* they would be without them
GoneNotSelected ==
    QueriedRefresh =>
       \A r \in GoneRows(store[last.table]) : r.nm_id \notin ResultIds(last.res)
GoneNotCounted ==
    QueriedCount =>
       last.res = count_needing_refresh(store[last.table] \ GoneRows(store[last.table]),
                                        cfg, last.at)
GoneNoViolation ==
    QueriedSellers =>
       last.res = list_sellers_with_violations(
                     store[last.table] \ GoneRows(store[last.table]))

\* C3 as stated: in every store state a row whose price_after_seller_discount
\* is -1 is not returned by list_nm_ids_for_refresh, not counted by
\* count_needing_refresh, and adds nothing to list_sellers_with_violations.
C3_GoneNeverDue ==
    /\ GoneNotSelected
    /\ GoneNotCounted
    /\ GoneNoViolation

\* C3 amended: with STALE_HOURS = 0 a row whose price is -1 is neither
\* returned by list_nm_ids_for_refresh nor counted by count_needing_refresh;
\* under every STALE_HOURS it adds nothing to list_sellers_with_violations.
C3_GoneNeverDueUnlessStale ==
    /\ cfg.stale = 0 => GoneNotSelected /\ GoneNotCounted
    /\ GoneNoViolation

\* C3: the case happens: staleness is off, the table holds a -1 row, the
\* selection was asked for more rows than are due and returned some
C3_Witness ==
    /\ cfg.stale = 0
    /\ QueriedRefresh
    /\ GoneRows(store[last.table]) # {}
    /\ 0 < Len(last.res) /\ Len(last.res) < last.limit

\* the due predicate as the claim words it, at the hour at of the query
C5Due(at, r) ==
    \/ IsNull(r.price_after_seller_discount)
    \/ Val(r.price_after_seller_discount) = 0
    \/ /\ cfg.stale > 0
       /\ \/ IsNull(r.updated_at)
          \/ at - Val(r.updated_at) > cfg.stale

\* C5: list_nm_ids_for_refresh(limit) returns ids of due rows only, each
\* once, min(limit, number of due rows) of them; count_needing_refresh
\* returns the number of due rows.  Due is: price null or 0, and with
\* STALE_HOURS > 0 also updated_at null or older than STALE_HOURS hours.
C5_DuePredicate ==
    LET due == {r \in store[last.table] : C5Due(last.at, r)} IN
    /\ QueriedRefresh =>
          /\ ResultIds(last.res) \subseteq {r.nm_id : r \in due}
          /\ Cardinality(ResultIds(last.res)) = Len(last.res)
          /\ Len(last.res) = Min2(last.limit, Cardinality(due))
    /\ QueriedCount => last.res = Cardinality(due)

\* C5: the scenario of the claim: A never priced (price 0), B with price -1,
\* C with a valid price updated hours ago, staleness off, a limit above the
\* number of rows due: the result is exactly [A]
C5_Witness ==
    /\ cfg.stale = 0
    /\ QueriedRefresh /\ last.limit = MaxLimit
    /\ \E a, b, c \in store[last.table] :
          /\ store[last.table] = {a, b, c}
          /\ a.price_after_seller_discount = Some(0)
          /\ IsGone(b)
          /\ ~IsNull(c.price_after_seller_discount)
          /\ Val(c.price_after_seller_discount) > 0
          /\ ~IsNull(c.updated_at)
          /\ Val(c.updated_at) < last.at
          /\ last.res = <<a.nm_id>>

\* the order of the claim: null updated_at first, then the older updated_at,
\* then the smaller nm_id
C6Before(a, b) ==
    \/ IsNull(a.updated_at) /\ ~IsNull(b.updated_at)
    \/ /\ ~IsNull(a.updated_at) /\ ~IsNull(b.updated_at)
       /\ Val(a.updated_at) < Val(b.updated_at)
    \/ a.updated_at = b.updated_at /\ a.nm_id < b.nm_id

\* C6: the ids list_nm_ids_for_refresh returns are in the order null
\* updated_at first, then ascending updated_at, then ascending nm_id, and
\* every due row the limit cut off comes after every returned row in it.
C6_SelectionOrder ==
    QueriedRefresh =>
       LET rows == store[last.table]
           res == last.res
           cut == {r \in rows : /\ _where_need_refresh(cfg, last.at, r)
                                /\ r.nm_id \notin ResultIds(res)}
       IN  /\ \A i, j \in DOMAIN res :
                i < j => C6Before(RowOf(rows, res[i]), RowOf(rows, res[j]))
           /\ \A i \in DOMAIN res : \A r \in cut : C6Before(RowOf(rows, res[i]), r)

\* C6: the case happens: the limit cut the result; a never-updated row
\* leads it, an updated row follows, and the row cut off was updated later
\* although its nm_id is smaller
C6_Witness ==
    /\ QueriedRefresh
    /\ Len(last.res) = 2
    /\ LET rows == store[last.table]
           r1 == RowOf(rows, last.res[1])
           r2 == RowOf(rows, last.res[2])
       IN  /\ IsNull(r1.updated_at)
           /\ ~IsNull(r2.updated_at)
           /\ \E r \in rows :
                 /\ _where_need_refresh(cfg, last.at, r)
                 /\ r.nm_id \notin ResultIds(last.res)
                 /\ ~IsNull(r.updated_at)
                 /\ Val(r.updated_at) > Val(r2.updated_at)
                 /\ r.nm_id < r2.nm_id

\* --------------------------------------------------------- the sentinel
\* C4: in every store the handlers add_product, refresh_product,
\* refresh_batch, upload_xlsx and upload_ozon_csv reach, a row whose
\* price_after_seller_discount is -1 has ui_price null and
\* price_before_discount 0.
C4_GoneHasNoUiPrice ==
    \A t \in ALLOWED_TABLES : \A r \in store[t] :
       IsGone(r) => /\ IsNull(r.ui_price)
                    /\ r.price_before_discount = Some(0)

\* C4: the case happens: refresh_batch has just stored a row as not on sale
C4_Witness ==
    \E p \in Procs :
       /\ proc[p].pc = "count"
       /\ \E r \in store[proc[p].table] :
             IsGone(r) /\ r.nm_id \in proc[p].wrote

\* ------------------------------------------------------- one batch item
\* the step of invocation p in which fetch_wb_price did not return
FetchFailed(p) ==
    /\ proc[p].pc = "fetch"
    /\ proc'[p] # proc[p]
    /\ proc'[p].pc # "upsert"

\* every id of the batch is in exactly one of the lists when the loop ends
BatchAccounted(q) ==
    /\ Len(q.updated) + Len(q.errors) = Len(q.nm_ids)
    /\ \A i \in DOMAIN q.nm_ids :
          \/ \E j \in DOMAIN q.updated : q.updated[j] = q.nm_ids[i]
          \/ \E j \in DOMAIN q.errors : q.errors[j].nm_id = q.nm_ids[i]

\* C7: when fetch_wb_price raises for an id of a batch, the id is appended
\* to errors, the store is left as it is (nothing written for the id, which
\* stays due, and nothing written earlier in the batch undone), and the
\* batch goes on with its next id; at the end every id of the batch is in
\* updated or in errors.
C7_FetchFailureSkipsItem ==
    /\ [][\A p \in Procs :
            FetchFailed(p) =>
               LET q == proc[p]
                   nm == CurId(q)
               IN  /\ proc'[p].errors = Append(q.errors, [nm_id |-> nm, error |-> "fetch"])
                   /\ proc'[p].updated = q.updated
                   /\ store' = store
                   /\ \A r \in store'[q.table] :
                         r.nm_id = nm => _where_need_refresh(cfg, now, r)
                   /\ IF q.idx < Len(q.nm_ids)
                      THEN /\ proc'[p].pc = "fetch"
                           /\ proc'[p].nm_ids = q.nm_ids
                           /\ proc'[p].idx = q.idx + 1
                      ELSE proc'[p].pc = "count"]_vars
    /\ [](\A p \in Procs : proc[p].pc = "count" => BatchAccounted(proc[p]))

\* C7: the case happens: the first id of a batch of two failed to fetch, the
\* second was fetched and stored
C7_Witness ==
    \E p \in Procs :
       LET q == proc[p] IN
       /\ q.pc = "count" /\ Len(q.nm_ids) = 2
       /\ q.errors = <<[nm_id |-> q.nm_ids[1], error |-> "fetch"]>>
       /\ q.updated = <<q.nm_ids[2]>>
       /\ \E r \in store[q.table] :
             /\ r.nm_id = q.nm_ids[2]
             /\ ~IsNull(r.price_after_seller_discount)
             /\ Val(r.price_after_seller_discount) # 0
       /\ \E r \in store[q.table] :
             r.nm_id = q.nm_ids[1] /\ _where_need_refresh(cfg, now, r)

\* C8: a refresh_batch call in which upsert_product or set_rrc raised a
\* store error for an id does not answer ok=true with that error among its
\* per-item errors: it answers ok=false.
C8_StoreErrorFailsRequest ==
    \A p \in Procs :
       (/\ proc[p].pc = "done"
        /\ \E i \in DOMAIN Val(proc[p].resp).errors :
              Val(proc[p].resp).errors[i].error = "store")
       => Val(proc[p].resp).ok = FALSE

\* the fetch result says the item is not on sale, in the claim's words
C9Unavailable(d) ==
    \/ d.available = Some(FALSE)
    \/ d.in_stock = Some(FALSE)
    \/ /\ OrZero(d.price_before_discount) <= 0
       /\ OrZero(d.price_after_seller_discount) <= 0

\* the step of invocation p in which upsert_product returned
Upserted(p) ==
    /\ proc[p].pc = "upsert"
    /\ proc'[p].errors = proc[p].errors
    /\ proc'[p].pc # "upsert"

WithoutUpdatedAt(rows) == {[r EXCEPT !.updated_at = NULL] : r \in rows}

\* C10: upsert_product called a second time in a row with the arguments of
\* the call before it leaves the table as that call left it, updated_at
\* aside; a table never holds two rows with one nm_id.
C10_UpsertIdempotent ==
    /\ [][(last'.op = "upsert_product" /\ last'.again) =>
            WithoutUpdatedAt(store'[last'.table]) = WithoutUpdatedAt(store[last'.table])]_vars
    /\ [](\A t \in ALLOWED_TABLES : \A r1, r2 \in store[t] :
             r1.nm_id = r2.nm_id => r1 = r2)

\* C10: the case happens: the second of two identical calls has run at a
\* later hour on a row that holds a floor and a sales count of earlier calls
C10_Witness ==
    /\ last.op = "upsert_product" /\ last.again
    /\ IsNull(last.args.sales_24h)
    /\ \E r \in store[last.table] :
          /\ r.nm_id = last.args.nm_id
          /\ r.updated_at = Some(now) /\ now > 0
          /\ ~IsNull(r.rrc)
          /\ r.sales_24h = Some(7)

\* the step in which upsert_product ran
UpsertCalled == last'.op = "upsert_product" /\ now' = now

\* C11: upsert_product leaves rrc of an existing row as it is and null on a
\* new row, sets updated_at to NOW(), leaves sales_24h as it is when called
\* without a sales_24h value, and changes no row but the one of its nm_id.
C11_UpsertFrame ==
    [][UpsertCalled =>
         LET t == last'.table
             a == last'.args
             old == RowsOf(store[t], a.nm_id)
             new == RowsOf(store'[t], a.nm_id)
         IN  /\ store'[t] \ new = store[t] \ old
             /\ \A u \in ALLOWED_TABLES \ {t} : store'[u] = store[u]
             /\ Cardinality(new) = 1
             /\ \A r \in new :
                   /\ r.updated_at = Some(now)
                   /\ IF old = {} THEN IsNull(r.rrc)
                      ELSE \A o \in old :
                              /\ r.rrc = o.rrc
                              /\ IsNull(a.sales_24h) => r.sales_24h = o.sales_24h]_vars

\* C11: the case happens: a call without sales_24h has just updated a row
\* that holds a floor and a sales count, next to a row written earlier
C11_Witness ==
    /\ last.op = "upsert_product" /\ ~last.again
    /\ IsNull(last.args.sales_24h)
    /\ \E r, o \in store[last.table] :
          /\ r.nm_id = last.args.nm_id /\ o.nm_id # r.nm_id
          /\ r.updated_at = Some(now)
          /\ r.rrc = Some(Rub(1500))
          /\ r.sales_24h = Some(7)
          /\ ~IsNull(o.updated_at) /\ Val(o.updated_at) < now

\* ------------------------------------------------------ the floor price
\* rrc of the row of nm, null when the table has no such row
RrcBefore(rows, nm) ==
    IF RowsOf(rows, nm) = {} THEN NULL ELSE RowOf(rows, nm).rrc

\* what a refresh of nm whose title heuristic gave h may do to the floors
\* of a table: nothing to the other rows; to the row of nm nothing, or,
\* with h not null, set it to h
RrcFrame(rows, rows2, nm, h) ==
    /\ \A r \in rows2 :
          r.nm_id # nm => RowsOf(rows, r.nm_id) # {} /\ r.rrc = RrcBefore(rows, r.nm_id)
    /\ \A r \in RowsOf(rows2, nm) :
          \/ r.rrc = RrcBefore(rows, nm)
          \/ ~IsNull(h) /\ r.rrc = h

\* the step in which do_one_batch of invocation p called the store
BatchWrote(p) ==
    /\ proc[p].pc \in {"upsert", "set_rrc"}
    /\ proc'[p] # proc[p]

\* C12: a refresh of an id, single-item or in a batch, changes the row's rrc
\* only when calc_rrc_from_title(title) is not null, and then to exactly that
\* value; with a null heuristic rrc stays as it was; no refresh writes null
\* over a floor; the other rows' floors are untouched.
C12_RefreshFloor ==
    /\ [](\A nm \in FewNmIds, card \in ReqCards, stop \in Stops :
            LET rows == store[DB_TABLE_DEFAULT]
                h == calc_rrc_from_title(fetch_wb_price(nm, card).title)
                rows2 == ItemEffect(rows, cfg, now, nm, card, stop)
            IN  /\ RrcFrame(rows, rows2, nm, h)
                /\ (stop = "none" /\ ~IsNull(h)) =>
                      \A r \in RowsOf(rows2, nm) : r.rrc = h)
    /\ [][\A p \in Procs :
            BatchWrote(p) =>
               LET q == proc[p]
                   h == calc_rrc_from_title(Val(q.data).title)
               IN  /\ RrcFrame(store[q.table], store'[q.table], CurId(q), h)
                   /\ (q.pc = "set_rrc" /\ proc'[p].errors = q.errors) =>
                         \A r \in RowsOf(store'[q.table], CurId(q)) : r.rrc = h]_vars

\* C12: the case happens: a batch has refreshed a row whose title gives no
\* floor, and the floor the operator had set is still there
C12_Witness ==
    \E p \in Procs :
       /\ proc[p].pc = "count"
       /\ proc[p].updated # <<>>
       /\ \E r \in store[proc[p].table] :
             /\ r.nm_id \in proc[p].wrote
             /\ r.title = <<>>
             /\ r.rrc = Some(Rub(1500))

\* ------------------------------------------------- the incremental report
PosIn(seq, x) == CHOOSE i \in DOMAIN seq : seq[i] = x
ErrorIds(errors) == [i \in DOMAIN errors |-> errors[i].nm_id]
SeqSet(seq) == {seq[i] : i \in DOMAIN seq}

\* the ids of part are ids of whole, each once, in the order of whole
InOrderOf(part, whole) ==
    /\ SeqSet(part) \subseteq SeqSet(whole)
    /\ \A i, j \in DOMAIN part :
          i < j => PosIn(whole, part[i]) < PosIn(whole, part[j])

\* the body resp reports the batch of q, rem rows being due after it
ReportOf(q, resp, rem) ==
    /\ resp.ok /\ resp.locked = Some(FALSE)
    /\ resp.requested = Some(q.limit)
    /\ resp.updated_n = Some(Len(resp.updated))
    /\ resp.errors_n = Some(Len(resp.errors))
    /\ resp.selected = Some(Len(q.nm_ids))
    /\ Val(resp.selected) = Val(resp.updated_n) + Val(resp.errors_n)
    /\ Val(resp.selected) <= q.limit
    /\ SeqSet(resp.updated) \cap SeqSet(ErrorIds(resp.errors)) = {}
    /\ SeqSet(resp.updated) \cup SeqSet(ErrorIds(resp.errors)) = SeqSet(q.nm_ids)
    /\ InOrderOf(resp.updated, q.nm_ids)
    /\ InOrderOf(ErrorIds(resp.errors), q.nm_ids)
    /\ resp.remaining = Some(rem)
    /\ resp.done = Some(rem = 0)

\* C13: the body of every successful non-full refresh_batch call has
\* selected = updated_count + errors_count = the number of ids selected,
\* selected <= limit, updated and errors disjoint and together the selected
\* ids, each in the selector's order, remaining = the number of due rows
\* counted after the batch was processed, done = (remaining = 0),
\* locked = false.
C13_IncrementalReport ==
    [][\A p \in Procs :
         LET q == proc[p]
             rem == Cardinality({r \in store[q.table] : _where_need_refresh(cfg, now, r)})
         IN  /\ (q.pc = "count" /\ ~q.full /\ proc'[p].pc = "done"
                 /\ Val(proc'[p].resp).ok) =>
                    ReportOf(q, Val(proc'[p].resp), rem)
             /\ (q.pc = "count" /\ ~q.full /\ proc'[p].pc = "alert") =>
                    /\ proc'[p].remaining = Some(rem)
                    /\ proc'[p].nm_ids = q.nm_ids /\ proc'[p].limit = q.limit
                    /\ proc'[p].updated = q.updated /\ proc'[p].errors = q.errors
             /\ (q.pc = "alert" /\ ~q.full /\ proc'[p].pc = "done") =>
                    ReportOf(q, Val(proc'[p].resp), Val(q.remaining))]_vars

\* C13: the case happens: a batch of two ids answered with one id updated,
\* one failed and still due
C13_Witness ==
    \E p \in Procs :
       /\ proc[p].pc = "done" /\ ~proc[p].full
       /\ LET resp == Val(proc[p].resp) IN
          /\ resp.ok
          /\ resp.selected = Some(2)
          /\ Len(resp.updated) = 1 /\ Len(resp.errors) = 1
          /\ resp.remaining = Some(1) /\ resp.done = Some(FALSE)

\* ------------------------------------------------------------ the alerts
NoDuplicates(seq) == \A i, j \in DOMAIN seq : i # j => seq[i] # seq[j]

\* the sellers list_sellers_with_violations returns for the catalog of q
ViolatingSellers(q) ==
    {r.seller_id : r \in list_sellers_with_violations(store[q.table]).rows}

\* the step of invocation p in which count_needing_refresh returned
Counted(p) ==
    /\ proc[p].pc = "count"
    /\ proc'[p] # proc[p]
    /\ ~IsNull(proc'[p].resp) => Val(proc'[p].resp).ok

\* the alert block of invocation p ran to its end or to its except clause
AlertBlockDone(p) == proc[p].pc = "alert" /\ proc'[p] # proc[p]

\* C14: a non-full refresh_batch call enters its alert block if and only if
\* silent is false, remaining is 0 after the batch and is_work_time() holds;
\* the block calls send_violation_alert once for each seller
\* list_sellers_with_violations returns and for nobody else (for the first
\* ones of them when a call raises); a call that does not enter the block
\* sends nothing.
C14_IncrementalAlertGate ==
    [][\A p \in Procs :
         LET q == proc[p]
             rem == count_needing_refresh(store[q.table], cfg, now)
         IN  /\ (Counted(p) /\ ~q.full) =>
                    /\ (proc'[p].pc = "alert")
                          <=> (~q.silent /\ rem = 0 /\ is_work_time(cfg, now))
                    /\ proc'[p].pc # "alert" =>
                          proc'[p].pc = "done" /\ proc'[p].alerted = <<>>
             /\ (~q.full /\ q.pc # "alert" /\ proc'[p].pc # "done") =>
                    proc'[p].alerted = <<>>
             /\ (AlertBlockDone(p) /\ ~q.full) =>
                    /\ NoDuplicates(proc'[p].alerted)
                    /\ SeqSet(proc'[p].alerted) \subseteq ViolatingSellers(q)
                    /\ ~proc'[p].alert_err =>
                          SeqSet(proc'[p].alerted) = ViolatingSellers(q)]_vars

\* C14: the case happens: a call that was not silent finished the catalog
\* inside the window and alerted two sellers
C14_Witness ==
    \E p \in Procs :
       /\ proc[p].pc = "done" /\ ~proc[p].full
       /\ Val(proc[p].resp).done = Some(TRUE)
       /\ Len(proc[p].alerted) = 2
       /\ ~proc[p].alert_err

\* the loop of lines 418-429 ends with the iteration q has just counted:
\* nothing is due, or it was iteration MAX_LOOPS
LoopEnds(q, rem) == rem = 0 \/ q.safety_loops >= MaxLoops

InIteration(q) == q.pc \in {"select", "fetch", "upsert", "set_rrc", "count"}

\* C15: in a refresh_batch(full=1) invocation the alert block runs at most
\* once, after the loop has ended and never inside an iteration, and only
\* when silent is false and is_work_time() holds; no seller is alerted twice
\* in one invocation.
C15_SweepAlertsOnce ==
    /\ [](\A p \in Procs :
            /\ (proc[p].full /\ InIteration(proc[p])) =>
                  proc[p].alerted = <<>> /\ ~proc[p].alert_err
            /\ NoDuplicates(proc[p].alerted))
    /\ [][\A p \in Procs :
            LET q == proc[p]
                rem == count_needing_refresh(store[q.table], cfg, now)
            IN  /\ (Counted(p) /\ q.full) =>
                       /\ (proc'[p].pc = "alert")
                             <=> (LoopEnds(q, rem) /\ ~q.silent /\ is_work_time(cfg, now))
                       /\ (proc'[p].pc = "select") <=> ~LoopEnds(q, rem)
                /\ (q.full /\ proc'[p].pc = "alert") => q.pc \in {"count", "alert"}
                /\ (AlertBlockDone(p) /\ q.full) =>
                       /\ proc'[p].pc = "final_remaining"
                       /\ SeqSet(proc'[p].alerted) \subseteq ViolatingSellers(q)
                /\ (q.full /\ q.pc \in {"final_remaining", "final_done", "release"}) =>
                       /\ proc'[p].alerted = q.alerted
                       /\ proc'[p].pc \in {"final_remaining", "final_done", "release", "done"}]_vars

\* C15: the case happens: a sweep of two iterations, one row each, has
\* returned having alerted two sellers once each
C15_Witness ==
    \E p \in Procs :
       /\ proc[p].pc = "done" /\ proc[p].full
       /\ Val(proc[p].resp).ok
       /\ Val(proc[p].resp).updated_n = Some(2)
       /\ Len(proc[p].alerted) = 2
       /\ ~proc[p].alert_err

\* C16: in no execution of refresh_batch, a full sweep that stops at the
\* iteration cap included, is send_violation_alert invoked while due rows
\* remain: whenever the alert block runs, the remaining count its last batch
\* observed is 0.
C16_AlertsOnlyWhenDone ==
    \A p \in Procs :
       proc[p].pc = "alert" => proc[p].remaining = Some(0)

\* the step in which the alert block of invocation p ended in its except
\* clause
DispatchFailed(p) == AlertBlockDone(p) /\ proc'[p].alert_err

\* C17: when list_sellers_with_violations or send_violation_alert raises in
\* the alert block of refresh_batch, the store is left as it was and the
\* handler goes on as after a successful dispatch: a non-full call returns
\* ok=true with the counts, remaining and done of its batch; a full call goes
\* on to its report with its totals untouched, every report it builds is
\* ok=true with these totals, and once it has returned the lock is free.
C17_DispatchFailureSwallowed ==
    /\ [](\A p \in Procs :
            (proc[p].pc = "done" /\ proc[p].full /\ proc[p].got /\ proc[p].alert_err
             /\ \A q \in Procs : ~SweepRunning(q, proc[p].table))
            => lockOwner[LOCK_NAME(proc[p].table)] = 0)
    /\ [][\A p \in Procs :
            LET q == proc[p]
                n == count_needing_refresh(store[q.table], cfg, now)
            IN  /\ DispatchFailed(p) =>
                       /\ store' = store
                       /\ ~q.full =>
                             /\ proc'[p].pc = "done"
                             /\ ReportOf(q, Val(proc'[p].resp), Val(q.remaining))
                       /\ q.full =>
                             /\ proc'[p].pc = "final_remaining"
                             /\ IsNull(proc'[p].resp)
                             /\ proc'[p].total_updated = q.total_updated
                             /\ proc'[p].total_errors = q.total_errors
                             /\ proc'[p].last_errors = q.last_errors
                /\ (q.full /\ q.alert_err /\ q.pc = "final_remaining"
                    /\ proc'[p].pc = "final_done") =>
                       /\ proc'[p].remaining = Some(n)
                       /\ proc'[p].total_updated = q.total_updated
                       /\ proc'[p].total_errors = q.total_errors
                       /\ proc'[p].last_errors = q.last_errors
                /\ (q.full /\ q.alert_err /\ q.pc = "final_done"
                    /\ proc'[p].pc = "release" /\ Val(proc'[p].resp).ok) =>
                       LET resp == Val(proc'[p].resp)
                       IN  /\ resp.mode = "full" /\ resp.locked = Some(FALSE)
                           /\ resp.updated_n = Some(q.total_updated)
                           /\ resp.errors_n = Some(q.total_errors)
                           /\ resp.errors = q.last_errors
                           /\ resp.remaining = q.remaining
                           /\ resp.done = Some(n = 0)]_vars

\* C17: the case happens: a full sweep whose second send_violation_alert
\* call raised has returned ok=true and done=true, and the lock is free
C17_Witness ==
    \E p \in Procs :
       /\ proc[p].pc = "done" /\ proc[p].full /\ proc[p].got
       /\ proc[p].alert_err /\ Len(proc[p].alerted) = 1
       /\ Val(proc[p].resp).ok
       /\ Val(proc[p].resp).done = Some(TRUE)
       /\ lockOwner[LOCK_NAME(proc[p].table)] = 0

\* -------------------------------------------------------- active hours
\* the hours of the window that starts at s and ends before e, going round
\* midnight when s > e
WindowHours(s, e) ==
    IF s <= e THEN {h \in DayHours : s <= h /\ h < e}
    ELSE {h \in DayHours : h >= s} \cup {h \in DayHours : h < e}

\* C18: with h the current UTC hour shifted by WORK_TZ_OFFSET modulo 24, and
\* for every start and end in 0..23, is_work_time() is true iff h is in
\* [start, end) when start <= end and iff h >= start or h < end when
\* start > end; start = end gives an empty window.
C18_ActiveHoursWindow ==
    last.op = "is_work_time" =>
       /\ last.h \in DayHours
       /\ \E d \in {-1, 0, 1} : last.h = now + cfg.tz + 24 * d
       /\ last.res <=> last.h \in WindowHours(cfg.work_start, cfg.work_end)
       /\ cfg.work_start = cfg.work_end => ~last.res

\* C18: the case happens: a window spanning midnight, asked in its part after
\* midnight, at an hour that the offset moves to the day before
C18_Witness ==
    /\ last.op = "is_work_time"
    /\ cfg.work_start > cfg.work_end
    /\ now + cfg.tz < 0
    /\ last.h >= cfg.work_start
    /\ last.res

\* ------------------------------------------------------ sweep termination
\* invocation p is a full sweep that holds the result of its GET_LOCK and
\* has not returned
SweepHolding(p) == proc[p].full /\ proc[p].got /\ proc[p].pc # "done"

\* C19: every refresh_batch(full=1) invocation that acquired the lock
\* returns; its loop runs at most MAX_LOOPS iterations and ends before that
\* exactly when an iteration observes remaining = 0, also when every fetch
\* fails and when limit selects no rows.
C19_SweepTerminates ==
    /\ [](\A p \in Procs :
            (proc[p].full /\ InIteration(proc[p])) =>
               proc[p].safety_loops \in 1..MaxLoops)
    /\ [][\A p \in Procs :
            LET q == proc[p]
                rem == count_needing_refresh(store[q.table], cfg, now)
            IN  (Counted(p) /\ q.full) =>
                   /\ (proc'[p].pc = "select") <=> (rem # 0 /\ q.safety_loops < MaxLoops)
                   /\ proc'[p].pc = "select" => proc'[p].safety_loops = q.safety_loops + 1
                   /\ (proc'[p].pc # "select" /\ q.safety_loops < MaxLoops) => rem = 0]_vars
    /\ \A p \in {1} : SweepHolding(p) ~> (proc[p].pc = "done")

\* C19: the case happens: a sweep with limit=0 has run MAX_LOOPS iterations
\* that selected nothing and has returned with rows still due
C19_Witness ==
    \E p \in Procs :
       /\ proc[p].pc = "done" /\ proc[p].full /\ proc[p].got
       /\ Val(proc[p].resp).ok
       /\ Val(proc[p].resp).updated_n = Some(0)
       /\ Val(proc[p].resp).errors_n = Some(0)
       /\ Val(proc[p].resp).done = Some(FALSE)

\* ------------------------------------------------------ forced pagination
\* C20: a forced call with a limit and an offset works on the page
\* list_nm_ids_any(limit, offset) of the catalog in ascending nm_id and
\* reports done = (next_offset >= total) with next_offset the offset behind
\* its page and total = count_all_rows, so that a caller who advances offset
\* to next_offset visits every nm_id exactly once.
C20_ForcedPagination ==
    \A p \in Procs :
       (last.op = "refresh_batch" /\ last.force) =>
          LET q == proc[p]
              page == list_nm_ids_any(store[q.table], last.limit, last.offset)
          IN  /\ q.pc \in {"fetch", "upsert", "set_rrc", "count", "alert"} =>
                    q.nm_ids = page
              /\ (q.pc = "done" /\ Val(q.resp).ok) =>
                    Val(q.resp).done
                       = Some(last.offset + Len(page) >= count_all_rows(store[q.table]))

\* -------------------------------------------------- violation detection
\* C21: a seller appears in list_sellers_with_violations if and only if at
\* least one of their products has a floor rrc > 0 and a display price or a
\* raw discounted price that is positive and strictly below it.
C21_SellerCriterion ==
    \A t \in ALLOWED_TABLES :
       LET res == list_sellers_with_violations(store[t])
       IN  ~res.raised =>
              {g.seller_id : g \in res.rows}
                 = {Val(r.seller_id) :
                      r \in {x \in store[t] : ViolationWhere(x) /\ ~IsNull(x.seller_id)}}

C23_SellerDrillDown ==
    last.op = "list_violations_for_seller" =>
       LET rows == store[last.table]
           res == last.res
       IN  /\ \A i, j \in DOMAIN res : i < j => res[i] < res[j]
           /\ \A r \in rows :
                 (r.nm_id \in ResultIds(res))
                    <=> /\ r.seller_id = Some(last.seller_id)
                        /\ ~IsNull(r.ui_price) /\ ~IsNull(r.rrc)
                        /\ Val(r.ui_price) > 0 /\ Val(r.rrc) > 0
                        /\ Val(r.ui_price) * 100 < Val(r.rrc)
           /\ ResultIds(res) \subseteq {r.nm_id : r \in rows}

\* C23: the case happens: a seller with two violating products was asked
\* for while another seller has a violating product too
C23_Witness ==
    /\ last.op = "list_violations_for_seller"
    /\ Len(last.res) = 2
    /\ \E r \in store[last.table] :
          /\ SellerViolationWhere(r)
          /\ ~IsNull(r.seller_id) /\ r.seller_id # Some(last.seller_id)

\* ----------------------------------------------------------- the limit
\* the limit the selector is meant to get: the caller's when positive, the
\* configured default BATCH_REFRESH_LIMIT otherwise
ClampedLimit(c, limit) == IF limit > 0 THEN limit ELSE c.batch_limit

\* C24: refresh_batch called with a zero or negative limit behaves as if
\* called with BATCH_REFRESH_LIMIT: every selection it makes returns the
\* first due ids up to that default; a non-positive limit never reaches
\* the selector.
C24_LimitClamped ==
    [][\A p \in Procs :
         LET q == proc[p]
         IN  (q.pc = "select" /\ proc'[p].pc \in {"fetch", "count"}) =>
                proc'[p].nm_ids
                   = list_nm_ids_for_refresh(store[q.table], cfg, now,
                                             ClampedLimit(cfg, q.limit))]_vars

\* -------------------------------------------------------- display price
AppliedUi == last.op = "calc_ui_price_from_product"

\* the adjusted price of a base b in hundredths, as a numerator over 10000:
\* base * (1 - p) with p = wallet / 100 when p > 0, base otherwise
Adjusted(c, b) == IF c.wallet > 0 THEN b * (100 - c.wallet) ELSE b * 100

\* n is floor(x / m) * m for x given as a numerator over 10000
IsFloorMultiple(n, x, m) ==
    \E k \in 0..(x \div 10000) :
       /\ n = k * m
       /\ k * m * 10000 <= x
       /\ x < (k + 1) * m * 10000

UiUpTo(c, b) ==
    {Val(calc_ui_price_from_product(c, Some(a))) : a \in {x \in BasePrices : 0 < x /\ x <= b}}

\* a and b are on the same side of the rounding threshold
SameSide(c, a, b) == (c.thr > 0 /\ a >= c.thr * 100) <=> (c.thr > 0 /\ b >= c.thr * 100)

\* C26: with wallet percent, threshold and step fixed, for all base prices
\* 0 < a <= b the display price of a is at most the display price of b,
\* also when a is below the rounding threshold and b at or above it.
C26_DisplayPriceMonotone ==
    (AppliedUi /\ ~IsNull(last.res)) =>
       \A u \in UiUpTo(cfg, Val(last.arg.base)) : u <= Val(last.res)

\* C26, amended: the display price is non-decreasing in the base price
\* among the base prices below the rounding threshold and among those at or
\* above it (everywhere when no threshold is configured).
C26_MonotoneOnEachSide ==
    (AppliedUi /\ ~IsNull(last.res)) =>
       LET b == Val(last.arg.base)
       IN  \A a \in {x \in BasePrices : 0 < x /\ x <= b} :
              SameSide(cfg, a, b) =>
                 Val(calc_ui_price_from_product(cfg, Some(a))) <= Val(last.res)

\* C26: the case happens: a base price above the threshold whose display
\* price, rounded down to the step, is higher than some display price
\* computed below the threshold
C26_Witness ==
    /\ AppliedUi /\ ~IsNull(last.res)
    /\ cfg.thr > 0 /\ cfg.step > 1 /\ cfg.wallet > 0
    /\ Val(last.arg.base) >= cfg.thr * 100
    /\ Val(last.res) >= cfg.thr

\* ------------------------------------------------- concurrent batches
\* do_one_batch run alone on rows for the ids selected, lines 352-377
RECURSIVE RunItems(_, _, _, _)
RunItems(rows, c, t, ids) ==
    IF ids = <<>> THEN rows
    ELSE LET d == fetch_wb_price(Head(ids), CardOf(Head(ids)))
             r1 == upsert_product(rows, t, BatchUpsertArgs(c, d))
             rrc_auto == calc_rrc_from_title(d.title)
             r2 == IF IsNull(rrc_auto) THEN r1 ELSE set_rrc(r1, t, Head(ids), rrc_auto)
         IN  RunItems(r2, c, t, Tail(ids))

\* a non-full call with this limit run alone on rows
RunCall(rows, c, t, limit) ==
    RunItems(rows, c, t, list_nm_ids_for_refresh(rows, c, t, limit))

\* the store after the call of worker a and then the call of worker b
OneAfterTheOther(a, b) ==
    RunCall(RunCall(PairRows, cfg, now, Val(Val(proc[a].resp).requested)),
            cfg, now, Val(Val(proc[b].resp).requested))

BothReturned == \A p \in Procs : proc[p].pc = "done" /\ Val(proc[p].resp).ok

PairStore == store[DB_TABLE_DEFAULT]

\* C27: for every interleaving of two non-full refresh_batch calls on one
\* catalog with a deterministic price source, the final store equals,
\* updated_at aside, the store of the two calls run one after the other.
C27_InterleavingAsSequential ==
    BothReturned =>
       \E a, b \in Procs :
          /\ a # b
          /\ WithoutUpdatedAt(PairStore) = WithoutUpdatedAt(OneAfterTheOther(a, b))

\* C27, amended: at every moment the catalog has exactly one row per nm_id,
\* and a row is as it was before the calls, or written by upsert_product
\* with its floor still to be set by the same item, or fully reconciled;
\* when both calls have returned every row is, updated_at aside, the row of
\* the store of the two calls run one after the other or the row as it was
\* before the calls, and every id a call reports as updated is reconciled.
C27_InterleavingNeverCorrupts ==
    /\ \A r1, r2 \in PairStore : r1.nm_id = r2.nm_id => r1 = r2
    /\ {r.nm_id : r \in PairStore} = {r.nm_id : r \in PairRows}
    /\ \A r \in WithoutUpdatedAt(PairStore) :
          LET nm == r.nm_id
              d == fetch_wb_price(nm, CardOf(nm))
              up == upsert_product({BareRow(nm)}, now, BatchUpsertArgs(cfg, d))
          IN  \/ r \in WithoutUpdatedAt(PairRows)
              \/ /\ r \in WithoutUpdatedAt(up)
                 /\ \E p \in Procs : proc[p].pc = "set_rrc" /\ CurId(proc[p]) = nm
              \/ r \in WithoutUpdatedAt(RunItems({BareRow(nm)}, cfg, now, <<nm>>))
    /\ BothReturned =>
          /\ \A r \in WithoutUpdatedAt(PairStore) :
                \/ r \in WithoutUpdatedAt(PairRows)
                \/ \E a, b \in Procs :
                      a # b /\ r \in WithoutUpdatedAt(OneAfterTheOther(a, b))
          /\ \A p \in Procs : \A nm \in SeqSet(Val(proc[p].resp).updated) :
                \E r \in PairStore :
                   /\ r.nm_id = nm
                   /\ [r EXCEPT !.updated_at = NULL]
                         \in WithoutUpdatedAt(RunItems({BareRow(nm)}, cfg, now, <<nm>>))

\* C27: the case happens: both calls have returned, both fetched and wrote
\* the same product, and a row the sequential run refreshes is still as it
\* was
C27_Witness ==
    /\ BothReturned
    /\ \E nm \in ReqNmIds : \A p \in Procs : nm \in SeqSet(Val(proc[p].resp).updated)
    /\ \E r \in PairStore : r \in PairRows

\* ---------------------------------------------------- catalog whitelist
\* the stripped text of a table parameter, "" when it is absent
ParamName(v) == IF IsNull(v) THEN "" ELSE Val(v).name

HasParam == last.op \in TableHandlers \cup {"refresh_batch"}

\* C28: for every caller-supplied table parameter resolve_table returns a
\* member of ALLOWED_TABLES: the parameter itself when it is whitelisted, the
\* default catalog for every other value, empty and missing included; every
\* store operation of a handler targets that table, and the table a
\* refresh_batch works on and builds its lock name from is whitelisted.
C28_CatalogWhitelist ==
    /\ [](HasParam =>
            /\ last.table \in ALLOWED_TABLES
            /\ ParamName(last.param) \in ALLOWED_TABLES => last.table = ParamName(last.param)
            /\ ParamName(last.param) \notin ALLOWED_TABLES => last.table = DB_TABLE_DEFAULT)
    /\ [](\A p \in Procs :
            /\ proc[p].table \in ALLOWED_TABLES
            /\ (last.op = "refresh_batch" /\ proc[p].pc \notin {"idle"} /\ p = 1) =>
                  proc[p].table = last.table
            /\ \A n \in LockNames :
                  (lockOwner[n] # 0 /\ proc[p].conn = lockOwner[n]) =>
                     n = LOCK_NAME(proc[p].table))
    /\ [][\A t \in ALLOWED_TABLES :
            store'[t] # store[t] =>
               \/ last'.op \in TableHandlers /\ last'.table = t
               \/ \E p \in Procs : proc[p].pc \in {"upsert", "set_rrc"} /\ proc[p].table = t]_vars

\* C28: the case happens: a full sweep asked for a table outside the
\* whitelist has run on the default catalog, under its lock name, and
\* returned
C28_Witness ==
    /\ last.op = "refresh_batch"
    /\ ParamName(last.param) \notin ALLOWED_TABLES /\ ParamName(last.param) # ""
    /\ proc[1].pc = "done" /\ proc[1].full /\ proc[1].got
    /\ proc[1].table = DB_TABLE_DEFAULT
    /\ Val(proc[1].resp).ok

\* ------------------------------------------------- lock contention outcome
\* GET_LOCK answered 0 to p's call and the handler has not gone on yet
Refused(p) == proc[p].pc = "acquire_close" /\ ~proc[p].got

\* C29: a refresh_batch(full=1) call that fails to acquire the catalog lock
\* returns ok=true, locked=true as its next step, having selected, fetched,
\* written and alerted nothing and without going through
\* release_advisory_lock: from the refused GET_LOCK to the return the
\* catalogs and the lock owners stay as they were, so the running sweep
\* still holds its lock; and locked=true is answered to nothing but a
\* refused call.
C29_RefusedCallDoesNothing ==
    /\ [][\A p \in Procs :
            (proc[p].pc = "acquire" /\ proc'[p].pc = "acquire_close" /\ ~proc'[p].got) =>
               /\ store' = store
               /\ lockOwner' = lockOwner
               /\ lockOwner[LOCK_NAME(proc[p].table)] \notin {0, proc'[p].conn}]_vars
    /\ [][\A p \in Procs :
            (Refused(p) /\ proc'[p] # proc[p]) =>
               /\ proc'[p].pc = "done"
               /\ Val(proc'[p].resp).ok
               /\ Val(proc'[p].resp).locked = Some(TRUE)
               /\ Val(proc'[p].resp).selected = NULL
               /\ Val(proc'[p].resp).updated = <<>>
               /\ proc'[p].alerted = <<>>
               /\ store' = store
               /\ lockOwner' = lockOwner]_vars
    /\ [](\A p \in Procs :
            (proc[p].pc = "done" /\ Val(proc[p].resp).locked = Some(TRUE)) =>
               /\ proc[p].full /\ ~proc[p].got
               /\ proc[p].alerted = <<>>)

\* C29: the case happens: one call was refused and has returned locked=true
\* while the other call still holds the lock it was granted
C29_Witness ==
    \E p, q \in Procs :
       /\ p # q
       /\ proc[q].pc = "done" /\ proc[q].full /\ ~proc[q].got
       /\ Val(proc[q].resp).locked = Some(TRUE)
       /\ SweepRunning(p, proc[q].table) /\ proc[p].got
       /\ lockOwner[LOCK_NAME(proc[q].table)] = proc[p].conn
       /\ proc[p].conn # 0

\* ------------------------------------------------------------- lock scope
\* q is a full sweep on catalog t whose connection holds the lock of t
HoldsSweepLock(q, t) ==
    /\ proc[q].full /\ proc[q].table = t
    /\ proc[q].conn # 0
    /\ lockOwner[LOCK_NAME(t)] = proc[q].conn

\* C30: the lock name of a full sweep depends on the catalog only: GET_LOCK
\* is refused to a full sweep on a catalog only while another full sweep on
\* the same catalog holds that catalog's lock, whatever runs on the other
\* catalog; an incremental refresh_batch never asks for, holds or releases a
\* lock, goes straight to its selection whatever locks are held, is never
\* answered locked=true and reports locked=false whenever it answers ok.
C30_LockScope ==
    /\ [][\A p \in Procs :
            (proc[p].pc = "acquire" /\ proc'[p].pc = "acquire_close") =>
               (~proc'[p].got <=>
                   \E q \in Procs \ {p} : HoldsSweepLock(q, proc[p].table))]_vars
    /\ [][\A p \in Procs :
            (proc[p].pc \in {"idle", "done"} /\ proc'[p].pc \notin {"idle", "done"}
             /\ ~proc'[p].full) => proc'[p].pc = "select"]_vars
    /\ [](\A p \in Procs :
            (~proc[p].full /\ proc[p].pc # "idle") =>
               /\ proc[p].pc \notin {"acquire", "acquire_close", "release"}
               /\ proc[p].conn = 0 /\ ~proc[p].got
               /\ proc[p].pc = "select" => ENABLED Select(p)
               /\ proc[p].pc = "done" =>
                     /\ Val(proc[p].resp).locked # Some(TRUE)
                     /\ Val(proc[p].resp).ok => Val(proc[p].resp).locked = Some(FALSE))

\* C30: the case happens: full sweeps on the two catalogs hold their locks
\* at the same moment, each granted while the other held its own
C30_Witness ==
    \E p, q \in Procs :
       /\ proc[p].table # proc[q].table
       /\ proc[p].pc = "acquire_close" /\ proc[p].got
       /\ proc[q].pc = "acquire_close" /\ proc[q].got
       /\ HoldsSweepLock(p, proc[p].table)
       /\ HoldsSweepLock(q, proc[q].table)

\* an incremental call on a catalog has written and answered locked=false
\* while a full sweep held that catalog's lock
IncrementalBesideSweep ==
    \E p, q \in Procs :
       /\ HoldsSweepLock(p, proc[q].table)
       /\ ~proc[q].full /\ proc[q].pc = "done"
       /\ Val(proc[q].resp).ok /\ Val(proc[q].resp).locked = Some(FALSE)
       /\ Val(proc[q].resp).updated # <<>>

\* --------------------------------------------------------- sweep convergence
CeilDiv(n, l) == (n + l - 1) \div l

NoRepeats(s) == \A i, j \in DOMAIN s : s[i] = s[j] => i = j

\* the sweep of worker 1 has built its response and is about to release
SweepAnswered == proc[1].full /\ proc[1].got /\ proc[1].pc = "release"

\* the incremental call of worker 1 has returned
IncrementalAnswered ==
    /\ last.op = "refresh_batch"
    /\ ~proc[1].full /\ proc[1].pc = "done"

\* the number of do_one_batch calls the loop of lines 418-429 has made
Iterations(q) == Min2(q.safety_loops, MaxLoops)

\* every id due at the start was fetched and updated once, none failed,
\* nothing is left, within max(1, ceil(n/limit)) iterations
SweepConverged ==
    LET q == proc[1]
        r == Val(q.resp)
        n == Cardinality(last.due)
    IN  /\ r.ok /\ r.remaining = Some(0) /\ r.done = Some(TRUE)
        /\ r.updated_n = Some(n) /\ r.errors_n = Some(0)
        /\ NoRepeats(last.fetched) /\ ResultIds(last.fetched) = last.due
        /\ Iterations(q) <= IF n = 0 THEN 1 ELSE CeilDiv(n, q.limit)

\* an incremental call lowers remaining by its updated_count, fetches only
\* ids that were due, each once, and gets on while anything is due
IncrementalProgress ==
    LET r == Val(proc[1].resp)
        n == Cardinality(last.due)
    IN  /\ r.ok /\ r.errors_n = Some(0)
        /\ r.updated_n = Some(Min2(n, Val(r.requested)))
        /\ r.remaining = Some(n - Val(r.updated_n))
        /\ r.done = Some(Val(r.remaining) = 0)
        /\ NoRepeats(last.fetched) /\ ResultIds(last.fetched) \subseteq last.due
        /\ Len(last.fetched) = Val(r.updated_n)

\* C31 (as stated): with staleness disabled, limit >= 1, a price source and
\* a store that always answer and no other writer, every full sweep over n
\* due rows ends with remaining = 0, done = true, updated_total = n,
\* errors_total = 0, each initially due id fetched once, within ceil(n/limit)
\* iterations; every incremental call lowers remaining by its updated_count.
C31_SweepConverges ==
    /\ SweepAnswered => SweepConverged
    /\ IncrementalAnswered => IncrementalProgress

\* C31 (amended): the same for every full sweep whose ceil(n/limit) does not
\* exceed the iteration cap of the loop; a sweep that needs more iterations
\* stops at the cap, having fetched and updated cap * limit of the due ids
\* once each, and reports what is left with done = false; every incremental
\* call lowers remaining by its updated_count; calls repeated for ever leave
\* nothing due from some call on.
C31_SweepConvergesWithinCap ==
    /\ [](SweepAnswered =>
            LET q == proc[1]
                r == Val(q.resp)
                n == Cardinality(last.due)
            IN  IF CeilDiv(n, q.limit) <= MaxLoops
                THEN SweepConverged
                ELSE /\ Iterations(q) = MaxLoops
                     /\ r.ok /\ r.done = Some(FALSE)
                     /\ r.updated_n = Some(MaxLoops * q.limit)
                     /\ r.remaining = Some(n - MaxLoops * q.limit)
                     /\ r.errors_n = Some(0)
                     /\ NoRepeats(last.fetched)
                     /\ ResultIds(last.fetched) \subseteq last.due)
    /\ [](IncrementalAnswered => IncrementalProgress)
    /\ <>[](DueIds(store[DB_TABLE_DEFAULT], cfg, now) = {})

\* C31: the case happens: a sweep with limit 1 over two due rows has fetched
\* both in two iterations and answers done = true
C31_Witness ==
    /\ SweepAnswered /\ SweepConverged
    /\ proc[1].limit = 1 /\ Cardinality(last.due) = 2
    /\ proc[1].safety_loops = 2

\* ------------------------------------------------- no refresh loop on items
\* the catalog holds a row of nm that the selection does not return
Checked(rows, nm) ==
    \E r \in rows : r.nm_id = nm /\ ~_where_need_refresh(cfg, now, r)

\* a step of the bulk import or of another API handler, not of refresh_batch
ApiWrite == proc' = proc /\ store' # store

\* C32: with staleness disabled, the row refresh_batch has written for an id
\* it fetched is not due, whatever fetch_wb_price returned (prices, or the
\* sentinel of an unavailable item); a row that is not due becomes due again
\* only through a bulk import or another API write; a selection returns no id
\* whose row is not due, and no id is fetched while its row is not due: a
\* checked id is not selected or fetched again until it is reset.
C32_NoRefreshLoop ==
    /\ [][\A p \in Procs :
            (proc[p].pc = "upsert" /\ proc'[p] # proc[p] /\ store' # store) =>
               /\ Checked(store'[proc[p].table], CurId(proc[p]))
               /\ proc'[p].wrote = proc[p].wrote \cup {CurId(proc[p])}]_vars
    /\ [][\A nm \in NmIds, t \in ALLOWED_TABLES :
            (Checked(store[t], nm) /\ ~Checked(store'[t], nm)) => ApiWrite]_vars
    /\ [][\A p \in Procs :
            (proc[p].pc = "select" /\ proc'[p].pc \in {"fetch", "count"}) =>
               \A i \in DOMAIN proc'[p].nm_ids :
                  ~Checked(store[proc[p].table], proc'[p].nm_ids[i])]_vars
    /\ [][\A p \in Procs :
            (proc[p].pc = "fetch" /\ proc'[p].pc = "upsert") =>
               ~Checked(store[proc[p].table], CurId(proc[p]))]_vars

\* C32: the case happens: a full sweep found an item unavailable, wrote the
\* sentinel and selects again in a later iteration while the other row is due
C32_Witness ==
    /\ proc[1].full /\ proc[1].pc = "fetch" /\ proc[1].safety_loops = 2
    /\ \E r \in store[DB_TABLE_DEFAULT] :
          /\ r.price_after_seller_discount = Some(Rub(-1))
          /\ r.nm_id # CurId(proc[1])
          /\ Checked(store[DB_TABLE_DEFAULT], r.nm_id)

\* ------------------------------------------------ transition-based dispatch
\* C33: refresh_batch dispatches violation alerts only in a call that found
\* something due: a call that has alerted a seller and answered ok had
\* selected at least one due id (nobody else writes the catalog, so a call
\* with limit >= 1 that selected nothing found nothing due at its start); a
\* call on an already refreshed catalog sends no alerts.
C33_TransitionDispatch ==
    \A p \in Procs :
       (/\ proc[p].pc = "done" /\ proc[p].alerted # <<>>
        /\ Val(proc[p].resp).ok) =>
          LET r == Val(proc[p].resp)
          IN  IF proc[p].full
              THEN Val(r.updated_n) + Val(r.errors_n) > 0
              ELSE Val(r.selected) > 0

\* ------------------------------------------------- title-derived floor price
\* C34: for every relevant number n extracted from a title,
\* calc_rrc_from_title returns 1300 when n < 700 and 1500 otherwise; it
\* returns null only when no number is found.
C34_TitleFloor ==
    last.op = "calc_rrc_from_title" =>
       LET n == extract_max_relevant_number(last.arg)
       IN  /\ IsNull(last.res) <=> IsNull(n)
           /\ ~IsNull(n) =>
                 last.res = IF Val(n) < 700 THEN Some(Rub(1300)) ELSE Some(Rub(1500))

\* ----------------------------------------------- deletion next to a refresh
\* the catalog t holds no row of nm
Absent(rows, nm) == RowsOf(rows, nm) = {}

\* the upsert_product call of p's batch returned without raising
UpsertDone(p) ==
    /\ proc[p].pc = "upsert" /\ proc'[p] # proc[p]
    /\ proc'[p].errors = proc[p].errors

\* C35 (as stated): a product that delete_product removed while a
\* refresh_batch that had selected it was in flight stays deleted: no step of
\* a batch makes a row for an id that has none.
C35_DeletionNotUndone ==
    [][\A nm \in NmIds, t \in ALLOWED_TABLES :
          (Absent(store[t], nm) /\ ~Absent(store'[t], nm)) => ApiWrite]_vars

\* C35 (amended): a batch selects only ids that have a row, so a batch that
\* selects after the deletion never re-creates the product; a batch that had
\* selected the id before the deletion re-creates the row when its upsert
\* for that id comes after the deletion, with the fetched prices and no floor
\* price; nothing else in a batch makes a row.
C35_DeletionUndoneOnlyBySelectedUpsert ==
    /\ [][\A p \in Procs :
            (proc[p].pc = "select" /\ proc'[p].pc \in {"fetch", "count"}) =>
               \A i \in DOMAIN proc'[p].nm_ids :
                  ~Absent(store[proc[p].table], proc'[p].nm_ids[i])]_vars
    /\ [][\A nm \in NmIds, t \in ALLOWED_TABLES :
            (Absent(store[t], nm) /\ ~Absent(store'[t], nm)) =>
               \/ ApiWrite
               \/ \E p \in Procs : /\ UpsertDone(p) /\ proc[p].table = t
                                   /\ CurId(proc[p]) = nm]_vars
    /\ [][\A p \in Procs :
            (UpsertDone(p) /\ Absent(store[proc[p].table], CurId(proc[p]))) =>
               \E r \in store'[proc[p].table] :
                  /\ r.nm_id = CurId(proc[p])
                  /\ r.price_after_seller_discount =
                        Some(BatchUpsertArgs(cfg, Val(proc[p].data)).price_after)
                  /\ r.rrc = NULL]_vars

\* C35: the case happens: the product was deleted after the batch selected
\* and fetched it, and the batch is about to call upsert_product for it
C35_Witness ==
    /\ proc[1].pc = "upsert"
    /\ Absent(store[proc[1].table], CurId(proc[1]))

\* ------------------------------------------- starvation behind failing items
\* the ids without a card that come before nm in the selection order (the
\* rows nobody has written are ordered by nm_id)
FailingBefore(nm) == {f \in last.missing : f < nm}

\* C36 (as stated): every due id whose fetch would succeed is eventually
\* fetched and reconciled, whatever ids fail before it.
C36_NoStarvation ==
    \A nm \in NmIds :
       (nm \notin last.missing) ~> Checked(store[DB_TABLE_DEFAULT], nm)

\* C36 (amended): a due id whose fetch would succeed is eventually fetched
\* and reconciled when fewer than limit of the ids that fail on every attempt
\* precede it in the selection order; when limit or more of them precede it,
\* every selection returns the same failing ids, and the id is never
\* selected, fetched or written.
C36_NoStarvationBehindFewFailures ==
    /\ \A nm \in NmIds :
          (nm \notin last.missing /\ Cardinality(FailingBefore(nm)) < cfg.batch_limit)
             ~> Checked(store[DB_TABLE_DEFAULT], nm)
    /\ [](\A nm \in NmIds :
            Cardinality(FailingBefore(nm)) >= cfg.batch_limit =>
               /\ ~Checked(store[DB_TABLE_DEFAULT], nm)
               /\ \A i \in DOMAIN proc[1].nm_ids : proc[1].nm_ids[i] # nm)

\* C36: the case happens: the first id fails on every attempt, the limit is
\* 2, and the ids behind it have been fetched and reconciled
C36_Witness ==
    /\ last.missing = {NM_ID_MIN + 1}
    /\ cfg.batch_limit = 2
    /\ \A nm \in NmIds \ last.missing : Checked(store[DB_TABLE_DEFAULT], nm)
    /\ proc[1].pc = "done" /\ Val(proc[1].resp).ok

\* ------------------------------------------------------------ report accuracy
\* C37: after a batch an id is in the updated list iff its row was written
\* by that batch (wrote: the ids whose upsert_product call returned), and an
\* id in the errors list was left unchanged; an id whose upsert succeeded and
\* whose set_rrc failed is not reported as an error with its new prices
\* stored.
C37_ReportAccuracy ==
    \A p \in Procs :
       proc[p].pc = "count" =>
          /\ ResultIds(proc[p].updated) = proc[p].wrote
          /\ \A i \in DOMAIN proc[p].errors :
                proc[p].errors[i].nm_id \notin proc[p].wrote

\* ---------------------------------------------------------- alert completeness
\* the sellers that have a row under its floor in the catalog of q
SellersUnderFloor(q) ==
    {Val(r.seller_id) : r \in {x \in store[q.table] :
                                  SellerViolationWhere(x) /\ ~IsNull(x.seller_id)}}

\* a send_violation_alert call, or the query for another reason than a row
\* without seller, ended the alert block of p in its except clause
TransportFailed(p) ==
    /\ DispatchFailed(p)
    /\ ~list_sellers_with_violations(store[proc[p].table]).raised

\* C38: whenever the alert block runs without a transport failure,
\* send_violation_alert is called for every seller that has a violating
\* product; a violating row whose seller_id is null does not keep the other
\* sellers from being alerted.
C38_AlertCompleteness ==
    [][\A p \in Procs :
          (AlertBlockDone(p) /\ ~TransportFailed(p)) =>
             SellersUnderFloor(proc[p]) \subseteq SeqSet(proc'[p].alerted)]_vars

\* ---------------------------------------------------------- bulk import effect
\* the last request was an upload_xlsx whose row named a valid nm_id and
\* whose store calls all returned
RowProcessed ==
    /\ last.op = "upload_xlsx"
    /\ last.fail = "none"
    /\ ~IsNull(_parse_nm_id(last.row.nm))

ImportedNm == Val(_parse_nm_id(last.row.nm))

\* the row of the imported id exists, holds zero prices and no display
\* price, and is due
ImportedRowReset ==
    /\ RowsOf(store[DB_TABLE_DEFAULT], ImportedNm) # {}
    /\ LET r == RowOf(store[DB_TABLE_DEFAULT], ImportedNm) IN
          /\ r.price_before_discount = Some(0)
          /\ r.price_after_seller_discount = Some(0)
          /\ IsNull(r.ui_price)
          /\ _where_need_refresh(cfg, now, r)

\* C39 as stated: after upload_xlsx processes a valid nm_id the row exists
\* with zero prices and no display price and is due, whatever its state
\* before; its rrc is the value of the file's cell when one is parsed and
\* its previous value otherwise.
C39_ImportEffect ==
    RowProcessed =>
       /\ ImportedRowReset
       /\ RowOf(store[DB_TABLE_DEFAULT], ImportedNm).rrc =
             IF IsNull(_parse_price_like(last.row.rrc)) THEN RrcBefore(last.before, ImportedNm)
             ELSE _parse_price_like(last.row.rrc)

\* C39 amended: the same, the rrc being the value of the file's cell rounded
\* to whole units when one is parsed.
C39_ImportEffectRounded ==
    RowProcessed =>
       /\ ImportedRowReset
       /\ RowOf(store[DB_TABLE_DEFAULT], ImportedNm).rrc =
             IF IsNull(_parse_price_like(last.row.rrc)) THEN RrcBefore(last.before, ImportedNm)
             ELSE Some(Rub(RoundUnits(Val(_parse_price_like(last.row.rrc)))))

\* C39 witness: a row that was refreshed to a positive price with a display
\* price and a floor of 1300 has been imported again from a cell "1400,60"
\* and is due with a floor of 1401
C39_Witness ==
    /\ RowProcessed
    /\ RowsOf(last.before, ImportedNm) # {}
    /\ LET b == RowOf(last.before, ImportedNm) IN
          /\ ~IsNull(b.price_after_seller_discount)
          /\ Val(b.price_after_seller_discount) > 0
          /\ ~IsNull(b.ui_price)
          /\ b.rrc = Some(Rub(1300))
    /\ last.row.rrc = TextCell(FALSE, Rub(1400) + 60)
    /\ ImportedRowReset
    /\ RowOf(store[DB_TABLE_DEFAULT], ImportedNm).rrc = Some(Rub(1401))

\* ------------------------------------------- single-item and batch refresh
\* the fields of a row the refresh paths decide
RefreshedFields(r) ==
    [price_before_discount |-> r.price_before_discount,
     price_after_seller_discount |-> r.price_after_seller_discount,
     ui_price |-> r.ui_price, seller_id |-> r.seller_id,
     seller_name |-> r.seller_name, rrc |-> r.rrc]

\* C40: for every result of the price source for an id, refresh_product and
\* a refresh_batch that processes the id with the same result leave the row
\* of the id in the same state (prices, ui_price, seller fields, rrc), also
\* when the result carries in_stock or available = False with positive prices.
C40_SingleAndBatchAgree ==
    last.op \in {"refresh_product", "refresh_batch"} =>
       RefreshedFields(RowOf(last.single, last.data.nm_id)) =
          RefreshedFields(RowOf(last.batch, last.data.nm_id))

====
